---- MODULE Spec2Model ----
(***************************************************************************)
(* Eco-impact aggregation pipeline (analyze/similar_search.py,             *)
(* analyze/tagging.py, analyze/ecoscore.py, analyze/helper.py).            *)
(*                                                                         *)
(* Eight state machines share this module:                                 *)
(*   SpecFan / SpecPool  find_similar_clothing_full_pipeline               *)
(*   SpecChain           _build_similar_product_object (one candidate)     *)
(*   SpecTag             smart_deep_tag_image_file / smart_deep_tag_url    *)
(*   SpecPrimary         combine_lykdat_and_tag_metadata                   *)
(*   SpecParse           gemini_parse_tag_text                             *)
(*   SpecDetect          _detect_material_tokens, _weighted_material_impact*)
(*   SpecCerts           base score, then _adjust_for_certifications       *)
(*   SpecScore           compute_eco_score, _score_to_grade, _score_to_100 *)
(* Python None is the string None; an Optional[int] is a record            *)
(* [given, value]; a dict is a function from its keys; a score is an exact *)
(* fraction [num, den]; a text to be scored is a sequence of words.        *)
(***************************************************************************)
EXTENDS Integers, Sequences, FiniteSets, TLC

\* ------------------------------------------------------------------ bounds
MaxProducts == 3
PoolProducts == 9
MaxResults == 3
MaxWorkersArg == 3
MaxTextLen == 3
\* segments of a materials text, strings of a certification list
MaxSegments == 2
MaxCerts == 3

\* ------------------------------------------------------ program constants
POOL_CAP == 8
SEARCH_TIMEOUT == 20
TAG_TIMEOUT == 15
FETCH_TIMEOUT == 10
VISION_TIMEOUT == 15
PARSE_RETRIES == 2
STATUS_FORBIDDEN == 403

None == "<None>"

Min(a, b) == IF a <= b THEN a ELSE b

Truthy(s) == s # None /\ s # ""

\* an "or" in which the second operand wins when it has a value
Or_second_first(a, b) == IF Truthy(b) THEN b ELSE a

\* Python "a or b" on Optional[str]
Or(a, b) == IF Truthy(a) THEN a ELSE b

\* dict.get(k) on a dict modelled as a function from its keys
Get(d, k) == IF k \in DOMAIN d THEN d[k] ELSE None

\* (dict.get(k) or []) for a list-valued key
GetList(d, k) == IF k \in DOMAIN d THEN d[k] ELSE <<>>

EmptyDict == [k \in {} |-> None]

\* A JSON number among the entries of a list of strings: the number 100
IntCert == "<int 100>"
\* str(c)
Str(c) == IF c = IntCert THEN "100" ELSE IF c = None THEN "None" ELSE c

\* An external call in flight: the collaborator it goes to and the timeout
\* the code attaches to it (<<>> when the call site passes none).
Call(svc, timeout) == [svc |-> svc, timeout |-> timeout]
NoCall == Call("none", <<>>)

\* Python exceptions: class, plus what the message embeds of the reply
Exc(cls, status, text) == [cls |-> cls, status |-> status, text |-> text]
NoExc == Exc("none", 0, "")

\* ----------------------------------------------- similarity-search results
Product(i, s, c, u, img) ==
    [id |-> i, score |-> s, currency |-> c, url |-> u, image |-> img,
     name |-> "Similar item", brand_name |-> None]

US_RETAILER_DOMAINS ==
    { "macys.com", "nordstrom.com", "bloomingdales.com", "urbanoutfitters.com",
      "gap.com", "oldnavy.com", "bananarepublic.com", "jcrew.com", "ae.com",
      "abercrombie.com", "hollisterco.com", "levi.com", "zappos.com", "rei.com",
      "dillards.com", "kohls.com", "target.com", "walmart.com",
      "backcountry.com" }

ShopUrl == "https://shop.example/p"
MacysUrl == "https://www.macys.com/p"

\* the retailer domain a (lower-cased) URL contains
DomainIn(url) ==
    CASE url = MacysUrl -> "macys.com"
      [] url = ShopUrl -> "shop.example"
      [] OTHER -> ""

\* str.upper() on the currency codes the search returns
Upper(c) == IF c = "usd" THEN "USD" ELSE c

is_us_like_product(prod) ==
    LET currency == Upper(Or(prod.currency, ""))
        url == Or(prod.url, "")
    IN  IF currency # "USD" THEN FALSE
        ELSE IF url = "" THEN TRUE
        ELSE IF DomainIn(url) \in US_RETAILER_DOMAINS THEN TRUE
        ELSE TRUE

RECURSIVE Concat(_)
Concat(groups) ==
    IF groups = <<>> THEN <<>> ELSE Head(groups) \o Concat(Tail(groups))

\* list.sort(key=score, reverse=True) is stable: equal scores keep their order
RECURSIVE InsertByScore(_, _)
InsertByScore(p, s) ==
    IF s = <<>> THEN <<p>>
    ELSE IF Head(s).score >= p.score
         THEN <<Head(s)>> \o InsertByScore(p, Tail(s))
         ELSE <<p>> \o s

RECURSIVE SortByScoreDesc(_)
SortByScoreDesc(s) ==
    IF s = <<>> THEN <<>>
    ELSE InsertByScore(s[Len(s)], SortByScoreDesc(SubSeq(s, 1, Len(s) - 1)))

\* the products of all groups, left in the order of the groups
_flatten_global_results_unsorted(result_groups) == Concat(result_groups)

_flatten_global_results(result_groups) == SortByScoreDesc(Concat(result_groups))

InSeq(x, s) == \E i \in 1..Len(s) : s[i] = x

\* a slice that takes one element too many
Prefix_inclusive(s, n) == SubSeq(s, 1, Min(n + 1, Len(s)))

\* s[:n] for n >= 0
Prefix(s, n) == SubSeq(s, 1, Min(n, Len(s)))

\* a selection that takes the best-scored products whatever their locale
select_us_biased_products_by_score(flat_products, max_results) ==
    Prefix(flat_products, max_results)

select_us_biased_products(flat_products, max_results) ==
    LET IsUs(p) == is_us_like_product(p)
        us_like == SelectSeq(flat_products, IsUs)
        NotUs(p) == ~InSeq(p, us_like)
        non_us == SelectSeq(flat_products, NotUs)
    IN  IF Len(us_like) >= max_results
        THEN Prefix(us_like, max_results)
        ELSE us_like \o Prefix(non_us, max_results - Len(us_like))

\* ------------------------------------------------ replies of collaborators
\* HTTP collaborators (image tagging, similarity search): a reply with a
\* status and a body, a network error, or no reply at all (silent).
LimitText == "image deep tagging limit reached"
HttpStatuses == {200, STATUS_FORBIDDEN, 500}
Reply(kind, status, body) == [kind |-> kind, status |-> status, body |-> body]
HttpReplies ==
    { Reply("http", st, b) : st \in HttpStatuses, b \in {"json", LimitText, "junk"} }
    \cup { Reply("neterr", 0, ""), Reply("silent", 0, "") }

\* requests' Response.ok
RespOk(reply) == reply.status < 400

\* Page fetch (requests.get): what the retailer site does
PageReplies == {"html", "empty", "http_error", "neterr", "silent"}

\* Vision client calls of the secondary tagging path
VisionReplies == {"labels", "no_labels", "error", "silent"}

\* ---------------------------------------------------------- JSON texts
\* A text is a sequence of tokens: brackets, a number literal "n" and whole
\* "key": value entries ("b" brand, "m" materials, "c" certifications).
Entries == {"b", "m", "c"}
JsonTokens == {"{", "}", "[", "]", "n"} \cup Entries

Texts == UNION { [1..n -> JsonTokens] : n \in 0..MaxTextLen }

\* Text-generation collaborator (generate_content): text, error or silence
GenReply(kind, text) == [kind |-> kind, text |-> text]
GenReplies ==
    { GenReply("text", t) : t \in Texts }
    \cup { GenReply("error", <<>>), GenReply("silent", <<>>) }

EntryDict(e) ==
    CASE e = "b" -> [brand |-> "Acme"]
      [] e = "m" -> [materials |-> "100% organic cotton"]
      [] e = "c" -> [certifications |-> <<"GOTS">>]

JsonVal(type, d) == [type |-> type, d |-> d]

Inner(t) == SubSeq(t, 2, Len(t) - 1)

RECURSIVE IsJson(_)
IsJson(t) ==
    \/ t = <<"n">>
    \/ /\ Len(t) >= 2 /\ t[1] = "[" /\ t[Len(t)] = "]"
       /\ (Inner(t) = <<>> \/ IsJson(Inner(t)))
    \/ /\ Len(t) >= 2 /\ t[1] = "{" /\ t[Len(t)] = "}"
       /\ (Inner(t) = <<>> \/ (Len(Inner(t)) = 1 /\ Inner(t)[1] \in Entries))

\* json.loads on a text IsJson accepts
JsonValue(t) ==
    IF t[1] = "{"
    THEN JsonVal("dict", IF Len(t) = 2 THEN EmptyDict ELSE EntryDict(t[2]))
    ELSE IF t[1] = "[" THEN JsonVal("list", EmptyDict)
    ELSE JsonVal("num", EmptyDict)

\* str.find / str.rfind, 1-based, 0 when absent
Find(t, c) ==
    IF \E i \in 1..Len(t) : t[i] = c
    THEN CHOOSE i \in 1..Len(t) : t[i] = c /\ \A j \in 1..(i - 1) : t[j] # c
    ELSE 0

RFind(t, c) ==
    IF \E i \in 1..Len(t) : t[i] = c
    THEN CHOOSE i \in 1..Len(t) : t[i] = c /\ \A j \in (i + 1)..Len(t) : t[j] # c
    ELSE 0

Outcome(ok, exc, val) == [ok |-> ok, exc |-> exc, val |-> val]

\* json.loads, then the salvage of the outermost {...}, then the dict test
ParseJsonObject(raw_text) ==
    LET start == Find(raw_text, "{")
        end == RFind(raw_text, "}")
        cut == SubSeq(raw_text, start, end)
        Checked(v) ==
            IF v.type = "dict" THEN Outcome(TRUE, NoExc, v.d)
            ELSE Outcome(FALSE, Exc("RuntimeError", 0, "non-object JSON"), EmptyDict)
    IN  IF IsJson(raw_text) THEN Checked(JsonValue(raw_text))
        ELSE IF start # 0 /\ end # 0 /\ end > start
        THEN IF IsJson(cut) THEN Checked(JsonValue(cut))
             ELSE Outcome(FALSE, Exc("JSONDecodeError", 0, ""), EmptyDict)
        ELSE Outcome(FALSE, Exc("RuntimeError", 0, "non-JSON content"), EmptyDict)

\* ============================================================ state
VARIABLES
    \* environment: USE_LYKDAT_DEEP_TAGGING, credentials, installed libraries
    use_lykdat, lykdat_key, gemini_ok, vision_ok,
    \* image tagging (smart_deep_tag_image_*, deep_tag_image_url)
    tpc, tag_entry, inflight, primary_attempts, secondary_attempts,
    primary_reply, primary_exc, tag_exc, deep_tags,
    \* one pipeline job: _build_similar_product_object (a candidate) or
    \* combine_lykdat_and_tag_metadata (the primary item)
    jpc, job, prod, page_reply, page_text, parse_exc, tag_structured,
    tag_meta, combined_product, eco_score, job_exc, job_result, ocr_reply,
    \* gemini_parse_tag_text
    gpc, tag_text, attempts, attempt_log, parse_result, last_err,
    \* find_similar_clothing_full_pipeline, and what its collaborators can
    \* answer in this run (catalog: search results; upstream: job scenarios)
    \* (workers: the local max_workers once the default has been applied)
    fpc, max_results, max_workers, workers, search_reply, flat_products,
    selected_products, executor, job_state, results, out, fan_exc,
    catalog, upstream,
    \* _detect_material_tokens, then _weighted_material_impact
    dpc, mat_text, mat_tokens, mat_impact,
    \* _adjust_for_certifications
    cpc, cert_materials, cert_base, cert_list, cert_adjusted,
    \* compute_eco_score / _score_to_grade, then the 0-100 presentation
    epc, score_entry, score_in, impact_in, grade_out, score_eco, shown,
    \* the merge of the sources of one item, then its scoring
    mpc, merge_site, merge_in, merge_tm, merge_product, merge_notes, merge_eco,
    \* _flatten_global_results, then select_us_biased_products
    spc, sel_groups, sel_max, sel_flat, sel_out,
    \* compute_eco_score at the granularity of _gemini_explanation
    xpc, explain_in, explain_eco, explain_out, explain_exc,
    \* the client configuration of google.generativeai, which is process-wide,
    \* and the pool threads that run a candidate's chain each
    genai_config, thread_pc, thread_key, key_env

envVars == <<use_lykdat, lykdat_key, gemini_ok, vision_ok>>
tagVars == <<tpc, tag_entry, inflight, primary_attempts, secondary_attempts,
             primary_reply, primary_exc, tag_exc, deep_tags>>
jobVars == <<jpc, job, prod, page_reply, page_text, parse_exc, tag_structured,
             tag_meta, combined_product, eco_score, job_exc, job_result,
             ocr_reply>>
tagVars_but_call == <<tpc, tag_entry, primary_attempts, secondary_attempts,
                      primary_reply, primary_exc, tag_exc, deep_tags>>
parseVars == <<gpc, tag_text, attempts, attempt_log, parse_result, last_err>>
fanVars == <<fpc, max_results, max_workers, workers, search_reply, flat_products,
             selected_products, executor, job_state, results, out, fan_exc,
             catalog, upstream>>
detectVars == <<dpc, mat_text, mat_tokens, mat_impact>>
certVars == <<cpc, cert_materials, cert_base, cert_list, cert_adjusted>>
ecoVars == <<epc, score_entry, score_in, impact_in, grade_out, score_eco, shown>>
scoreVars == <<detectVars, certVars, ecoVars>>
mergeVars == <<mpc, merge_site, merge_in, merge_tm, merge_product, merge_notes, merge_eco>>
selectVars == <<spc, sel_groups, sel_max, sel_flat, sel_out>>
explainVars == <<xpc, explain_in, explain_eco, explain_out, explain_exc>>
sharedVars == <<genai_config, thread_pc, thread_key, key_env>>
unitVars == <<mergeVars, selectVars, explainVars, sharedVars>>
vars == <<envVars, tagVars, jobVars, parseVars, fanVars, scoreVars, unitVars>>

EnvInit ==
    /\ use_lykdat \in BOOLEAN
    /\ lykdat_key \in BOOLEAN
    /\ gemini_ok \in BOOLEAN
    /\ vision_ok \in BOOLEAN

\* ===================================================== image tagging
DeepTagResult(items, labels, provider, gemini_used) ==
    [items |-> items, labels |-> labels, provider |-> provider,
     gemini_used |-> gemini_used]
NoTags == DeepTagResult(<<>>, <<>>, "none", FALSE)
NoReply == Reply("none", 0, "")

\* deep_tag_image_file / deep_tag_image_url once the request has been sent
DeepTagOutcome(reply) ==
    IF reply.kind = "neterr"
    THEN Outcome(FALSE, Exc("ConnectionError", 0, ""), NoTags)
    ELSE IF reply.kind = "silent"
    THEN Outcome(FALSE, Exc("Timeout", 0, ""), NoTags)
    ELSE IF ~RespOk(reply)
    THEN Outcome(FALSE, Exc("RuntimeError", reply.status, reply.body), NoTags)
    ELSE IF reply.body # "json"
    THEN Outcome(FALSE, Exc("RuntimeError", 0, reply.body), NoTags)
    ELSE Outcome(TRUE, NoExc,
                 DeepTagResult(<<"jeans">>, <<"denim">>, "lykdat", FALSE))

\* get_env(LYKDAT_API_KEY, required=True) with the variable unset
MissingKeyExc == Exc("RuntimeError", 0, "Missing required environment variable")

\* a fallback that no longer looks at the message
IsQuotaMessage_any(e) == TRUE

\* the substring test of the except-branch on str(e)
IsQuotaMessage(e) == e.text = LimitText \/ e.status = STATUS_FORBIDDEN

\* _vision_build_base_tags
VisionBaseTags(vreply) ==
    IF vreply = "labels"
    THEN DeepTagResult(<<"jeans">>, <<"Jeans">>, "vision+gemini", FALSE)
    ELSE DeepTagResult(<<>>, <<>>, "vision+gemini", FALSE)

\* _gemini_refine_vision_tags once generate_content has answered
RefinedTags(base, greply) ==
    IF greply.kind = "text" /\ ParseJsonObject(greply.text).ok
    THEN [base EXCEPT !.gemini_used = TRUE]
    ELSE base

TagIdle ==
    /\ tpc = "idle" /\ tag_entry = "none" /\ inflight = NoCall
    /\ primary_attempts = 0 /\ secondary_attempts = 0
    /\ primary_reply = NoReply /\ primary_exc = NoExc /\ tag_exc = NoExc
    /\ deep_tags = NoTags

TagStartState(entry) ==
    /\ tpc = "start" /\ tag_entry = entry /\ inflight = NoCall
    /\ primary_attempts = 0 /\ secondary_attempts = 0
    /\ primary_reply = NoReply /\ primary_exc = NoExc /\ tag_exc = NoExc
    /\ deep_tags = NoTags

TagFatal(e) ==
    /\ tpc' = "fatal" /\ tag_exc' = e /\ inflight' = NoCall
    /\ UNCHANGED deep_tags

TagSuccess(tags) ==
    /\ tpc' = "success" /\ deep_tags' = tags /\ inflight' = NoCall
    /\ UNCHANGED tag_exc

\* vision_gemini_deep_tag_image_file / _url up to the first Vision call
StartSecondary ==
    /\ secondary_attempts' = secondary_attempts + 1
    /\ IF vision_ok
       THEN /\ tpc' = "vision_call"
            /\ inflight' = Call("vision", <<VISION_TIMEOUT>>)
            /\ UNCHANGED <<tag_exc, deep_tags>>
       ELSE TagFatal(Exc("RuntimeError", 0, "google-cloud-vision is not installed"))

\* the except RuntimeError branch of smart_deep_tag_image_*
HandlePrimaryFailure(e) ==
    /\ primary_exc' = e
    /\ IF e.cls = "RuntimeError" /\ IsQuotaMessage(e)
       THEN StartSecondary
       ELSE TagFatal(e) /\ UNCHANGED secondary_attempts

\* smart_deep_tag_image_file / smart_deep_tag_image_url: entry
SmartDeepTagStart ==
    /\ tpc = "start" /\ tag_entry \in {"smart_file", "smart_url"}
    /\ IF use_lykdat
       THEN /\ primary_attempts' = primary_attempts + 1
            /\ IF lykdat_key
               THEN /\ tpc' = "primary_call"
                    /\ inflight' = Call("tagging", <<TAG_TIMEOUT>>)
                    /\ UNCHANGED <<secondary_attempts, primary_exc, tag_exc, deep_tags>>
               ELSE HandlePrimaryFailure(MissingKeyExc)
       ELSE /\ StartSecondary
            /\ UNCHANGED <<primary_attempts, primary_exc>>
    /\ UNCHANGED <<tag_entry, primary_reply>>

\* the primary tagging request returns (or times out)
SmartPrimaryReturn ==
    /\ tpc = "primary_call" /\ tag_entry \in {"smart_file", "smart_url"}
    /\ \E reply \in HttpReplies :
         LET o == DeepTagOutcome(reply)
         IN  /\ primary_reply' = reply
             /\ IF o.ok
                THEN TagSuccess(o.val) /\ UNCHANGED <<secondary_attempts, primary_exc>>
                ELSE HandlePrimaryFailure(o.exc)
    /\ UNCHANGED <<tag_entry, primary_attempts>>

\* label_detection + image_properties return (both carry the timeout)
VisionReturn ==
    /\ tpc = "vision_call"
    /\ \E vreply \in VisionReplies :
         IF vreply = "error"
         THEN TagFatal(Exc("GoogleAPIError", 0, ""))
         ELSE IF vreply = "silent"
         THEN TagFatal(Exc("DeadlineExceeded", 0, ""))
         ELSE IF gemini_ok
         THEN /\ tpc' = "refine_call"
              /\ inflight' = Call("textgen", <<>>)
              /\ deep_tags' = VisionBaseTags(vreply)
              /\ UNCHANGED tag_exc
         ELSE TagSuccess(VisionBaseTags(vreply))
    /\ UNCHANGED <<tag_entry, primary_attempts, secondary_attempts,
                   primary_reply, primary_exc>>

\* the refinement's generate_content returns; it has no timeout, so a
\* silent collaborator leaves the call in flight for ever
RefineReturn ==
    /\ tpc = "refine_call"
    /\ \E greply \in GenReplies :
         /\ greply.kind # "silent"
         /\ TagSuccess(RefinedTags(deep_tags, greply))
    /\ UNCHANGED <<tag_entry, primary_attempts, secondary_attempts,
                   primary_reply, primary_exc>>

\* ============================================ records of one pipeline job
TagMetadata(brand, product_name, materials, origin, certifications, raw_text, raw_structured) ==
    [brand |-> brand, product_name |-> product_name, materials |-> materials,
     origin |-> origin, certifications |-> certifications,
     raw_text |-> raw_text, raw_structured |-> raw_structured]

\* the TagMetadata the candidate chain starts from
EmptyTagMeta(text) == TagMetadata(None, None, None, None, <<>>, text, EmptyDict)

\* ", ".join(parts) over a material_composition of at most one entry that
\* names a material without a percentage; None when no part was collected
JoinComposition(comp) ==
    IF comp = <<>> THEN None ELSE comp[1].material

\* TagMetadata.from_gemini_response
from_gemini_response(text, data) ==
    TagMetadata(
        Get(data, "brand"),
        Or(Get(data, "product_name"), Get(data, "product")),
        IF "material_composition" \in DOMAIN data
        THEN JoinComposition(data["material_composition"])
        ELSE IF "materials" \in DOMAIN data THEN data["materials"] ELSE None,
        Or(Get(data, "made_in"), Or(Get(data, "origin"), Get(data, "country_of_origin"))),
        [i \in 1..Len(GetList(data, "certifications")) |->
            Str(GetList(data, "certifications")[i])],
        text, data)

ProductMetadata(url, title, brand, product_name, materials, origin, certifications, currency) ==
    [url |-> url, title |-> title, brand |-> brand, product_name |-> product_name,
     materials |-> materials, origin |-> origin,
     certifications |-> certifications, currency |-> currency]
NoProduct == ProductMetadata(None, None, None, None, None, None, <<>>, None)

\* deep_tags_to_product_metadata
deep_tags_to_product_metadata(tags, source_url) ==
    LET main_item == IF tags.items = <<>> THEN None ELSE tags.items[1]
    IN  ProductMetadata(source_url, Or(main_item, "Clothing item"), None,
                        IF Truthy(main_item) THEN main_item ELSE None,
                        None, None, <<>>, None)

\* for c in extra: if c and c not in certifications: certifications.append(c)
RECURSIVE AppendNew(_, _)
AppendNew(certifications, extra) ==
    IF extra = <<>> THEN certifications
    ELSE LET c == Head(extra)
         IN  AppendNew(IF c # "" /\ ~InSeq(c, certifications)
                       THEN Append(certifications, c) ELSE certifications,
                       Tail(extra))

\* the merge of _build_similar_product_object
MergeCandidate(p, product_from_lykdat, tm, ts, image_url) ==
    LET product_url == Or(p.url, "")
        currency == IF Truthy(Get(ts, "currency")) THEN Get(ts, "currency")
                    ELSE p.currency
        certifications == AppendNew(product_from_lykdat.certifications,
                                    tm.certifications)
        brand == Or(tm.brand, Or(product_from_lykdat.brand, p.brand_name))
        product_name ==
            Or(tm.product_name, Or(product_from_lykdat.product_name, p.name))
        title == Or(product_name,
                    Or(product_from_lykdat.title, Or(p.name, "Clothing item")))
    IN  ProductMetadata(Or(product_url, product_from_lykdat.url), title, brand,
                        product_name,
                        Or(tm.materials, product_from_lykdat.materials),
                        Or(tm.origin, product_from_lykdat.origin),
                        certifications, currency)

\* the merge of combine_lykdat_and_tag_metadata
MergePrimary(product_from_tags, tm) ==
    ProductMetadata(product_from_tags.url,
                    Or(tm.product_name, product_from_tags.title),
                    Or(tm.brand, product_from_tags.brand),
                    Or(tm.product_name, product_from_tags.product_name),
                    Or(tm.materials, product_from_tags.materials),
                    Or(tm.origin, product_from_tags.origin),
                    AppendNew(product_from_tags.certifications, tm.certifications),
                    product_from_tags.currency)

\* ======================================================= scoring
\* Scores are exact rationals num/den (den > 0, lowest terms); the decimal
\* literals of the code are the fractions they denote.
RECURSIVE GCD(_, _)
GCD(a, b) == IF b = 0 THEN a ELSE GCD(b, a % b)
Abs(a) == IF a < 0 THEN -a ELSE a
Rat(n, d) ==
    LET g == GCD(Abs(n), d)
    IN  IF n = 0 THEN [num |-> 0, den |-> 1] ELSE [num |-> n \div g, den |-> d \div g]
Tenths(t) == Rat(t, 10)
Hundredths(h) == Rat(h, 100)
RAdd(x, y) == Rat(x.num * y.den + y.num * x.den, x.den * y.den)
RSub(x, y) == Rat(x.num * y.den - y.num * x.den, x.den * y.den)
RScale(k, x) == Rat(k * x.num, x.den)
RDiv(x, k) == Rat(x.num, x.den * k)
RLe(x, y) == x.num * y.den <= y.num * x.den
RZero == Rat(0, 1)

\* MATERIAL_IMPACT in the order of the dict: fibre key, impact in tenths
Impact(key, tenths) == [key |-> key, impact |-> tenths]
MATERIAL_IMPACT ==
    << Impact("hemp", 11), Impact("linen", 12), Impact("lyocell", 13),
       Impact("organic_cotton", 24), Impact("recycled_cotton", 20),
       Impact("recycled_wool", 22), Impact("down", 28), Impact("feather", 30),
       Impact("viscose", 31), Impact("rayon", 31), Impact("modal", 29),
       Impact("cupro", 28), Impact("bamboo", 26), Impact("cotton", 36),
       Impact("wool", 42), Impact("silk", 43), Impact("cashmere", 49),
       Impact("polyester", 39), Impact("polyamide", 41),
       Impact("recycled_polyester", 34), Impact("recycled_polyamide", 34),
       Impact("recycled_acrylic", 36), Impact("acrylic", 43),
       Impact("elastane", 44), Impact("synthetic_other", 40),
       Impact("synthetic_leather", 46), Impact("pvc", 47),
       Impact("leather", 48), Impact("fur", 50), Impact("unknown", 35) >>

\* the keys of the dict, each with its position in the dict's order and with
\* its value
MaterialKeys == { MATERIAL_IMPACT[i].key : i \in 1..Len(MATERIAL_IMPACT) }
KeyPosition ==
    [k \in MaterialKeys |->
        CHOOSE i \in 1..Len(MATERIAL_IMPACT) : MATERIAL_IMPACT[i].key = k]
\* MATERIAL_IMPACT.get(mat_key, MATERIAL_IMPACT["unknown"]), in tenths
ImpactTenths(mat_key) ==
    IF mat_key \in MaterialKeys THEN MATERIAL_IMPACT[KeyPosition[mat_key]].impact
    ELSE 35
ImpactOf(mat_key) == Tenths(ImpactTenths(mat_key))

\* ---- materials texts
\* A materials text is a sequence of words and fibre names; the separators
\* "," "/" ";" are words of their own, a word "<n>%" is a number followed by a
\* percent sign, and consecutive words are separated by blanks.
Separators == {",", "/", ";"}
Percent(word) ==
    CASE word = "0%" -> 0 [] word = "2%" -> 2 [] word = "20%" -> 20
      [] word = "50%" -> 50 [] word = "80%" -> 80 [] word = "98%" -> 98
      [] word = "100%" -> 100 [] OTHER -> -1
IsPercent(word) == Percent(word) >= 0

\* str.lower on the words of the model
Lower(word) ==
    CASE word = "GOTS" -> "gots" [] word = "Fair" -> "fair"
      [] word = "Trade" -> "trade" [] word = "OEKO-TEX" -> "oeko-tex"
      [] word = "Outer:" -> "outer:" [] word = "Lining:" -> "lining:"
      [] OTHER -> word
RECURSIVE LowerText(_)
LowerText(text) ==
    IF text = <<>> THEN <<>> ELSE <<Lower(Head(text))>> \o LowerText(Tail(text))

\* the alias table repl, applied by text.replace on the words of the model
Normalize(word) ==
    CASE word = "organic cotton" -> "organic_cotton"
      [] word = "recycled polyester" -> "recycled_polyester"
      [] word = "recycled nylon" -> "recycled_polyamide"
      [] word = "nylon" -> "polyamide"
      [] OTHER -> word

\* "mat_key in part" for the (normalized) words of the model: the keys of
\* MATERIAL_IMPACT that are substrings of the word
KeysInWord(word) ==
    CASE word = "cotton" -> {"cotton"}
      [] word = "organic_cotton" -> {"organic_cotton", "cotton"}
      [] word = "polyester" -> {"polyester"}
      [] word = "recycled_polyester" -> {"recycled_polyester", "polyester"}
      [] word = "polyamide" -> {"polyamide"}
      [] word = "recycled_polyamide" -> {"recycled_polyamide", "polyamide"}
      [] word = "elastane" -> {"elastane"}
      [] OTHER -> {}

\* "poly" in part or "acrylic" in part or "elastane" in part
LooksSynthetic(word) ==
    word \in {"polyblend", "polyester", "recycled_polyester", "polyamide",
              "recycled_polyamide", "elastane"}

Token(key, pct) == [key |-> key, pct |-> pct]
\* pct is None in the code when the segment has no "<n>%": here -1
NoPct == -1

\* re.split(r"[,/;]+", text), each part stripped, the empty parts dropped
RECURSIVE SplitParts(_, _)
SplitParts(text, part) ==
    IF text = <<>> THEN (IF part = <<>> THEN <<>> ELSE <<part>>)
    ELSE IF Head(text) \in Separators
    THEN (IF part = <<>> THEN <<>> ELSE <<part>>) \o SplitParts(Tail(text), <<>>)
    ELSE SplitParts(Tail(text), Append(part, Head(text)))

\* the last "<n>%" of the part
FirstPercent_last(part) ==
    IF \E i \in 1..Len(part) : IsPercent(part[i])
    THEN Percent(part[CHOOSE i \in 1..Len(part) :
                        IsPercent(part[i]) /\ \A j \in (i + 1)..Len(part) : ~IsPercent(part[j])])
    ELSE NoPct

\* re.search(r"(\d+\.?\d*)\s*%", part): the first "<n>%" of the part
FirstPercent(part) ==
    IF \E i \in 1..Len(part) : IsPercent(part[i])
    THEN Percent(part[CHOOSE i \in 1..Len(part) :
                        IsPercent(part[i]) /\ \A j \in 1..(i - 1) : ~IsPercent(part[j])])
    ELSE NoPct

KeysInPart(part) == UNION { KeysInWord(part[i]) : i \in 1..Len(part) }

\* for mat_key in MATERIAL_IMPACT.keys(): if mat_key in part: break
FirstKey(part) ==
    LET hits == { KeyPosition[k] : k \in KeysInPart(part) }
    IN  IF hits # {}
        THEN MATERIAL_IMPACT[CHOOSE i \in hits : \A j \in hits : i <= j].key
        ELSE IF \E i \in 1..Len(part) : LooksSynthetic(part[i])
        THEN "synthetic_other"
        ELSE "unknown"

\* text = materials.lower(), then the alias table
RECURSIVE NormalizeText(_)
NormalizeText(materials) ==
    IF materials = <<>> THEN <<>>
    ELSE <<Normalize(Lower(Head(materials)))>> \o NormalizeText(Tail(materials))

\* for part in parts: tokens.append((key, pct))
RECURSIVE TokensOf(_)
TokensOf(parts) ==
    IF parts = <<>> THEN <<>>
    ELSE <<Token(FirstKey(Head(parts)), FirstPercent(Head(parts)))>>
         \o TokensOf(Tail(parts))

\* a detection that returns the tokens it found, even when there are none
_detect_material_tokens_no_default(materials) ==
    TokensOf(SplitParts(NormalizeText(materials), <<>>))

\* _detect_material_tokens
_detect_material_tokens(materials) ==
    LET tokens == TokensOf(SplitParts(NormalizeText(materials), <<>>))
    IN  IF materials = <<>> THEN <<Token("unknown", NoPct)>>
        ELSE IF tokens = <<>> THEN <<Token("unknown", NoPct)>>
        ELSE tokens

RECURSIVE SumPct(_)
SumPct(tokens) ==
    IF tokens = <<>> THEN 0
    ELSE (IF Head(tokens).pct = NoPct THEN 0 ELSE Head(tokens).pct) + SumPct(Tail(tokens))

\* impact += w * impact_val over zip(tokens, weights), the weights being
\* wnum[i] / wden: the sum of wnum[i] * impact_val, in tenths
RECURSIVE WeightedSum(_, _)
WeightedSum(tokens, wnum) ==
    IF tokens = <<>> THEN 0
    ELSE Head(wnum) * ImpactTenths(Head(tokens).key)
         + WeightedSum(Tail(tokens), Tail(wnum))

\* weights taken as pct / 100, the percentages assumed to add up to 100
_weighted_material_impact_per_hundred(tokens) ==
    LET n == Len(tokens)
        ones == [i \in 1..n |-> 1]
        pcts == [i \in 1..n |-> IF tokens[i].pct = NoPct THEN 0 ELSE tokens[i].pct]
        weights == IF \E i \in 1..n : tokens[i].pct # NoPct
                   THEN (IF SumPct(tokens) <= 0
                         THEN [num |-> ones, den |-> 1]
                         ELSE [num |-> pcts, den |-> 100])
                   ELSE [num |-> ones, den |-> n]
    IN  IF tokens = <<>> THEN Tenths(35)
        ELSE Rat(WeightedSum(tokens, weights.num), 10 * weights.den)

\* _weighted_material_impact
_weighted_material_impact(tokens) ==
    LET n == Len(tokens)
        ones == [i \in 1..n |-> 1]
        pcts == [i \in 1..n |-> IF tokens[i].pct = NoPct THEN 0 ELSE tokens[i].pct]
        weights == IF \E i \in 1..n : tokens[i].pct # NoPct
                   THEN (IF SumPct(tokens) <= 0
                         THEN [num |-> ones, den |-> 1]
                         ELSE [num |-> pcts, den |-> SumPct(tokens)])
                   ELSE [num |-> ones, den |-> n]
    IN  IF tokens = <<>> THEN Tenths(35)
        ELSE Rat(WeightedSum(tokens, weights.num), 10 * weights.den)

\* a score left as it is
_clamp_score_none(score) == score

\* _clamp_score
_clamp_score(score) ==
    IF score.num < score.den THEN [num |-> 1, den |-> 1]
    ELSE IF score.num > 5 * score.den THEN [num |-> 5, den |-> 1]
    ELSE score

\* score <= t / 10
LeTenths(score, t) == 10 * score.num <= t * score.den

\* a grade table whose upper edges are exclusive
_score_to_grade_strict(score) ==
    IF 10 * score.num < 16 * score.den THEN "A"
    ELSE IF 10 * score.num < 25 * score.den THEN "B"
    ELSE IF 10 * score.num < 34 * score.den THEN "C"
    ELSE IF 10 * score.num < 43 * score.den THEN "D"
    ELSE "E"

\* _score_to_grade
_score_to_grade(score) ==
    IF LeTenths(score, 16) THEN "A"
    ELSE IF LeTenths(score, 25) THEN "B"
    ELSE IF LeTenths(score, 34) THEN "C"
    ELSE IF LeTenths(score, 43) THEN "D"
    ELSE "E"

\* ---- certification texts
\* A certification string is a sequence of words and single blanks " ".

\* " ".join(strings)
RECURSIVE JoinBlank(_)
JoinBlank(strings) ==
    IF strings = <<>> THEN <<>>
    ELSE IF Len(strings) = 1 THEN Head(strings)
    ELSE Head(strings) \o <<" ">> \o JoinBlank(Tail(strings))

\* kw in text
Occurs(kw, text) ==
    \E i \in 1..(Len(text) - Len(kw) + 1) : SubSeq(text, i, i + Len(kw) - 1) = kw

\* the entries of STRONG_CERT_KEYWORDS and of MODERATE_CERT_KEYWORDS that can
\* be spelled with the words of the model
STRONG_CERT_KEYWORDS ==
    { <<"gots">>, <<"fair", " ", "trade">>,
      <<"fair", " ", "trade", " ", "certified">>,
      <<"grs">>, <<"grs", " ", "certified">>, <<"bluesign">> }
MODERATE_CERT_KEYWORDS ==
    { <<"oeko-tex">>, <<"oeko-tex", " ", "standard", " ", "100">>,
      <<"standard", " ", "100", " ", "oeko-tex">>, <<"bci">>,
      <<"bci", " ", "cotton">>, <<"better", " ", "cotton">>,
      <<"better", " ", "cotton", " ", "standard">> }

\* an adjustment that only looks at the presence of each tier
RawAdjustment_flat(text) ==
    (IF \E kw \in STRONG_CERT_KEYWORDS : Occurs(kw, text) THEN -70 ELSE 0)
    + (IF \E kw \in MODERATE_CERT_KEYWORDS : Occurs(kw, text) THEN -40 ELSE 0)

\* the adjustment before the cap, in hundredths
RawAdjustment(text) ==
    LET strong == { kw \in STRONG_CERT_KEYWORDS : Occurs(kw, text) }
        moderate == { kw \in MODERATE_CERT_KEYWORDS : Occurs(kw, text) }
        strong_present == strong # {}
        moderate_present == moderate # {}
        strong_count == Cardinality(strong)
        moderate_count == Cardinality(moderate)
    IN  (IF strong_present THEN -70 ELSE 0)
        + (IF moderate_present THEN -40 ELSE 0)
        + (IF strong_count > 1 THEN -15 * (strong_count - 1) ELSE 0)
        + (IF moderate_count > 1 THEN -10 * (moderate_count - 1) ELSE 0)

\* an adjustment without the cap
CapAdjustment_none(h) == h

\* adjustment = max(adjustment, -1.5)
CapAdjustment(h) == IF h >= -150 THEN h ELSE -150

\* the words and blanks of the certification strings of the model
CertWords(string) ==
    CASE string = "GOTS" -> <<"GOTS">>
      [] string = "Fair Trade Certified" -> <<"Fair", " ", "Trade", " ", "certified">>
      [] string = "Fair" -> <<"Fair">>
      [] string = "Trade" -> <<"Trade">>
      [] string = "GRS certified" -> <<"grs", " ", "certified">>
      [] string = "OEKO-TEX Standard 100" -> <<"OEKO-TEX", " ", "standard", " ", "100">>
      [] string = "BCI cotton" -> <<"bci", " ", "cotton">>
      [] string = "handmade" -> <<"handmade">>
      [] string = "100" -> <<"100">>
      [] OTHER -> <<>>

\* " ".join(certifications).lower()
CertText(certifications) ==
    LowerText(JoinBlank([i \in 1..Len(certifications) |-> CertWords(certifications[i])]))

\* _adjust_for_certifications
_adjust_for_certifications(base_score, certifications) ==
    IF certifications = <<>> THEN base_score
    ELSE RAdd(base_score,
              Hundredths(CapAdjustment(RawAdjustment(CertText(certifications)))))

\* the words of the materials strings of the model
MaterialWords(string) ==
    CASE string = "100% organic cotton" -> <<"100%", "organic cotton">>
      [] string = "98% cotton, 2% elastane" -> <<"98%", "cotton", ",", "2%", "elastane">>
      [] string = "80% cotton, 20% polyester" -> <<"80%", "cotton", ",", "20%", "polyester">>
      [] string = "0% cotton, 0% polyester" -> <<"0%", "cotton", ",", "0%", "polyester">>
      [] string = "80% cotton, 80% polyester" -> <<"80%", "cotton", ",", "80%", "polyester">>
      [] string = "recycled polyester" -> <<"recycled polyester">>
      [] string = "one size" -> <<"one", "size">>
      [] OTHER -> <<>>

\* str.strip() leaves nothing
Blank(string) == string \in {None, "", "   "}

\* one entry of material_composition
Component(material, name, percentage) ==
    [material |-> material, name |-> name, percentage |-> percentage]

PercentWord(pct) ==
    CASE pct = 0 -> "0%" [] pct = 20 -> "20%" [] pct = 80 -> "80%" [] pct = 100 -> "100%"

\* the parts collected from material_composition, joined by ", "
RECURSIVE CompositionText(_)
CompositionText(comp) ==
    IF comp = <<>> THEN <<>>
    ELSE LET m == Head(comp)
             name == Or(m.material, m.name)
             part == IF Truthy(name) /\ m.percentage # NoPct
                     THEN <<PercentWord(m.percentage), name>>
                     ELSE IF Truthy(name) THEN <<name>> ELSE <<>>
             rest == CompositionText(Tail(comp))
         IN  IF part = <<>> THEN rest
             ELSE IF rest = <<>> THEN part
             ELSE part \o <<",">> \o rest

\* _score_to_100: max(0, min(100, int((6 - impact_score) / 5 * 100)))
_score_to_100(impact_score) ==
    LET x == RScale(100, RDiv(RSub(Tenths(60), impact_score), 5))
        trunc == IF x.num >= 0 THEN x.num \div x.den ELSE -((-x.num) \div x.den)
    IN  IF trunc < 0 THEN 0 ELSE IF trunc > 100 THEN 100 ELSE trunc

\* mat_orig: the materials text, with " | origin: <origin>" when there is one
MatOrig(materials, origin) == [materials |-> materials, origin |-> origin]

EcoScore(grade, impact_score, mat_orig, certifications, explanation) ==
    [grade |-> grade, impact_score |-> impact_score,
     material_and_origin |-> mat_orig,
     certifications |-> certifications,
     impact_explanation |-> explanation]
NoEco == EcoScore(None, RZero, MatOrig(<<>>, None), <<>>, None)

\* _infer_material_from_labels on the labels the tagging replies carry
_infer_material_from_labels(tags) ==
    IF tags.labels = <<>> THEN None
    ELSE IF InSeq("denim", tags.labels) \/ InSeq("Jeans", tags.labels)
    THEN "98% cotton, 2% elastane"
    ELSE None

\* for c in ts_certs: if c and c not in certs: certs.append(str(c)), the
\* hint carrying its certifications as a list
RECURSIVE AppendNewStr(_, _)
AppendNewStr(certs, ts_certs) ==
    IF ts_certs = <<>> THEN certs
    ELSE LET c == Head(ts_certs)
         IN  AppendNewStr(IF Truthy(c) /\ ~InSeq(c, certs)
                          THEN Append(certs, Str(c)) ELSE certs,
                          Tail(ts_certs))
HintCerts(certs, ts) == AppendNewStr(certs, GetList(ts, "certifications"))

\* a step 1 in which the product record's materials win over the hint's
MaterialsString_product_first(product, ts, tags) ==
    LET guessed == _infer_material_from_labels(tags)
    IN  IF Truthy(product.materials) THEN product.materials
        ELSE IF DOMAIN ts # {} /\ ~Blank(Get(ts, "materials"))
        THEN Get(ts, "materials")
        ELSE IF Truthy(guessed) THEN guessed ELSE product.materials

\* the materials string of step 1 before material_composition is looked at
MaterialsString(product, ts, tags) ==
    LET guessed == _infer_material_from_labels(tags)
        m0 == IF ~Truthy(product.materials) /\ Truthy(guessed)
              THEN guessed ELSE product.materials
    IN  IF DOMAIN ts # {} /\ ~Blank(Get(ts, "materials"))
        THEN Get(ts, "materials") ELSE m0

\* the parts of the hint's material_composition
HintComposition(ts) ==
    IF "material_composition" \in DOMAIN ts
    THEN CompositionText(ts["material_composition"]) ELSE <<>>

\* the materials text that is scored: the composition parts when there are
\* some, else the materials string
ScoredText(parts, materials_str) ==
    IF parts # <<>> THEN parts ELSE MaterialWords(materials_str)

\* (materials_str or "unknown materials")
ShownText(parts, materials_str) ==
    IF parts = <<>> /\ ~Truthy(materials_str) THEN <<"unknown materials">>
    ELSE ScoredText(parts, materials_str)

\* the materials text compute_eco_score scores (step 1)
ScoredMaterials(product, ts, tags) ==
    ScoredText(HintComposition(ts), MaterialsString(product, ts, tags))

\* certs after step 1
StepOneCerts(product, ts) ==
    IF DOMAIN ts # {} THEN HintCerts(product.certifications, ts)
    ELSE product.certifications

\* steps 2 and 3, and the clamp
FinalScore(tokens, certs) ==
    _clamp_score(_adjust_for_certifications(_weighted_material_impact(tokens), certs))

\* step 4 and the returned EcoScore
Graded(final_score, mat_orig, certs, explanation) ==
    EcoScore(_score_to_grade(final_score), final_score, mat_orig, certs, explanation)

\* steps 2 to 6 on the outcome of step 1
ScoreStepOne(parts, materials_str, certs, origin, explanation) ==
    Graded(FinalScore(_detect_material_tokens(ScoredText(parts, materials_str)), certs),
           MatOrig(ShownText(parts, materials_str), origin), certs, explanation)

\* compute_eco_score, the explanation being the one _gemini_explanation gave
compute_eco_score(product, ts, tags, explanation) ==
    ScoreStepOne(HintComposition(ts), MaterialsString(product, ts, tags),
                 StepOneCerts(product, ts),
                 IF Truthy(product.origin) THEN product.origin ELSE None,
                 explanation)

\* _gemini_explanation once generate_content has answered
Explanation(greply) ==
    IF greply.kind = "text" /\ greply.text # <<>>
    THEN "gemini text" ELSE "template after failed call"

\* the explanations a generate_content call that answers can lead to
ExplanationsReturned ==
    { Explanation(greply) : greply \in { g \in GenReplies : g.kind # "silent" } }

\* requests.get inside safe_get: the page text or None
safe_get(preply) ==
    IF preply = "html" THEN "<html>" ELSE IF preply = "empty" THEN "" ELSE None

\* gemini_parse_product_text_to_tag_structured once generate_content answered
ParseProductOutcome(greply) ==
    IF greply.kind = "error"
    THEN Outcome(FALSE, Exc("GoogleAPIError", 0, ""), EmptyDict)
    ELSE ParseJsonObject(greply.text)

JobResult(ok, image, ocr_text, ts, product, eco) ==
    [ok |-> ok, clothing_image_path |-> image, tag_ocr_text |-> ocr_text,
     tag_structured |-> ts, combined_product_metadata |-> product,
     eco_score |-> eco]
NoResult == JobResult(FALSE, None, "", EmptyDict, NoProduct, NoEco)
NoProd == Product(0, 0, None, "", "")

JobIdle ==
    /\ jpc = "idle" /\ job = "none" /\ prod = NoProd
    /\ page_reply = "none" /\ page_text = "" /\ parse_exc = NoExc
    /\ tag_structured = EmptyDict /\ tag_meta = EmptyTagMeta("")
    /\ combined_product = NoProduct /\ eco_score = NoEco
    /\ job_exc = NoExc /\ job_result = NoResult /\ ocr_reply = "none"

ParseIdle ==
    /\ gpc = "idle" /\ tag_text = "" /\ attempts = 0 /\ attempt_log = <<>>
    /\ parse_result = EmptyDict /\ last_err = NoExc

OptInt(given, value) == [given |-> given, value |-> value]
NoneInt == OptInt(FALSE, 0)

\* eco_notes = None: the notes text without pieces, which no join of parts is
NoNotes == <<>>

DetectIdle ==
    /\ dpc = "idle" /\ mat_text = <<>> /\ mat_tokens = <<>> /\ mat_impact = RZero
CertIdle ==
    /\ cpc = "idle" /\ cert_materials = None /\ cert_base = RZero
    /\ cert_list = <<>> /\ cert_adjusted = RZero
EcoIdle ==
    /\ epc = "idle" /\ score_entry = "none" /\ score_in = <<>> /\ impact_in = RZero
    /\ grade_out = None /\ score_eco = NoEco /\ shown = -1
ScoreIdle == DetectIdle /\ CertIdle /\ EcoIdle
MergeIdle ==
    /\ mpc = "idle" /\ merge_site = "none" /\ merge_in = <<>>
    /\ merge_tm = EmptyTagMeta("") /\ merge_product = NoProduct
    /\ merge_notes = NoNotes /\ merge_eco = NoEco
SelectIdle ==
    /\ spc = "idle" /\ sel_groups = <<>> /\ sel_max = 0
    /\ sel_flat = <<>> /\ sel_out = <<>>
ExplainIdle ==
    /\ xpc = "idle" /\ explain_in = <<>> /\ explain_eco = NoEco
    /\ explain_out = <<>> /\ explain_exc = NoExc
SharedIdle ==
    /\ genai_config = <<>> /\ thread_pc = <<>> /\ thread_key = <<>>
    /\ key_env = <<>>
UnitIdle == MergeIdle /\ SelectIdle /\ ExplainIdle /\ SharedIdle

FanIdle ==
    /\ fpc = "idle" /\ max_results = 0 /\ max_workers = NoneInt
    /\ workers = 0
    /\ search_reply = NoReply /\ flat_products = <<>>
    /\ selected_products = <<>> /\ executor = "none" /\ job_state = <<>>
    /\ results = <<>> /\ out = <<>> /\ fan_exc = NoExc
    /\ catalog = {} /\ upstream = {}

\* ---- smart_deep_tag_image_file / smart_deep_tag_image_url on their own
InitTag ==
    /\ EnvInit /\ FanIdle /\ ScoreIdle /\ UnitIdle /\ JobIdle /\ ParseIdle
    /\ \E entry \in {"smart_file", "smart_url"} : TagStartState(entry)

NextTag ==
    \/ SmartDeepTagStart /\ UNCHANGED <<unitVars, scoreVars, fanVars, envVars, jobVars, parseVars>>
    \/ SmartPrimaryReturn /\ UNCHANGED <<unitVars, scoreVars, fanVars, envVars, jobVars, parseVars>>
    \/ VisionReturn /\ UNCHANGED <<unitVars, scoreVars, fanVars, envVars, jobVars, parseVars>>
    \/ RefineReturn /\ UNCHANGED <<unitVars, scoreVars, fanVars, envVars, jobVars, parseVars>>

SpecTag == InitTag /\ [][NextTag]_vars

\* ============================ _build_similar_product_object, step by step
JobFail(e) ==
    /\ jpc' = "failed" /\ job_exc' = e /\ inflight' = NoCall
    /\ UNCHANGED <<eco_score, job_result>>

\* a narrower handler: only RuntimeError is caught
CaughtByChain_runtime(e) == e.cls = "RuntimeError"

\* except Exception around the product-page parse
CaughtByChain(e) == TRUE

\* compute_eco_score on the merged record, up to the explanation call: with
\* no text-generation client the template is returned at once
JobProceed(merged, image, text, ts, tm, tags) ==
    LET eco == compute_eco_score(merged, ts, tags, "template without client")
    IN  /\ page_text' = text /\ tag_structured' = ts /\ tag_meta' = tm
        /\ combined_product' = merged
        /\ UNCHANGED job_exc
        /\ IF gemini_ok
           THEN /\ jpc' = "explain_call"
                /\ inflight' = Call("textgen", <<>>)
                /\ UNCHANGED <<eco_score, job_result>>
           ELSE /\ jpc' = "done" /\ inflight' = NoCall
                /\ eco_score' = eco
                /\ job_result' = JobResult(TRUE, image, text, ts, merged, eco)

\* the merge of the candidate chain, then the scoring
CandidateProceed(tags, pt, ts, tm) ==
    LET image_url == prod.image
        product_from_lykdat ==
            deep_tags_to_product_metadata(tags, Or(prod.url, image_url))
    IN  JobProceed(MergeCandidate(prod, product_from_lykdat, tm, ts, image_url),
                   image_url, pt, ts, tm, tags)

\* image choice, then deep_tag_image_url is called directly
CandidateStart ==
    /\ jpc = "start" /\ job = "candidate"
    /\ IF prod.image = ""
       THEN /\ JobFail(Exc("RuntimeError", 0, "No image URL found"))
            /\ UNCHANGED <<tpc, primary_attempts, primary_exc, tag_exc>>
       ELSE /\ primary_attempts' = primary_attempts + 1
            /\ IF lykdat_key
               THEN /\ tpc' = "primary_call" /\ jpc' = "tag_call"
                    /\ inflight' = Call("tagging", <<TAG_TIMEOUT>>)
                    /\ UNCHANGED <<primary_exc, tag_exc, job_exc, eco_score, job_result>>
               ELSE /\ tpc' = "fatal" /\ tag_exc' = MissingKeyExc
                    /\ primary_exc' = MissingKeyExc
                    /\ JobFail(MissingKeyExc)
    /\ UNCHANGED <<tag_entry, secondary_attempts, primary_reply, deep_tags,
                   job, prod, page_reply, page_text, parse_exc, tag_structured,
                   tag_meta, combined_product, ocr_reply>>

\* the tagging request returns; on success the page fetch is sent
CandidateTagReturn ==
    /\ jpc = "tag_call" /\ job = "candidate"
    /\ \E reply \in HttpReplies :
         LET o == DeepTagOutcome(reply)
         IN  /\ primary_reply' = reply
             /\ IF o.ok
                THEN /\ tpc' = "success" /\ deep_tags' = o.val
                     /\ UNCHANGED <<primary_exc, tag_exc>>
                     /\ IF prod.url # ""
                        THEN /\ jpc' = "fetch_call"
                             /\ inflight' = Call("fetch", <<FETCH_TIMEOUT>>)
                             /\ UNCHANGED <<page_text, tag_structured, tag_meta,
                                            combined_product, eco_score, job_exc,
                                            job_result>>
                        ELSE CandidateProceed(o.val, "", EmptyDict, EmptyTagMeta(""))
                ELSE /\ tpc' = "fatal" /\ tag_exc' = o.exc /\ primary_exc' = o.exc
                     /\ JobFail(o.exc)
                     /\ UNCHANGED <<deep_tags, page_text, tag_structured, tag_meta,
                                    combined_product>>
    /\ UNCHANGED <<tag_entry, primary_attempts, secondary_attempts,
                   job, prod, page_reply, parse_exc, ocr_reply>>

\* safe_get returns; with page text the structuring call is sent
CandidateFetchReturn ==
    /\ jpc = "fetch_call" /\ job = "candidate"
    /\ \E preply \in PageReplies :
         LET html == safe_get(preply)
             pt == IF Truthy(html) THEN html ELSE ""
         IN  /\ page_reply' = preply
             /\ IF pt = ""
                THEN /\ CandidateProceed(deep_tags, pt, EmptyDict, EmptyTagMeta(pt))
                     /\ UNCHANGED parse_exc
                ELSE IF gemini_ok
                THEN /\ jpc' = "parse_call"
                     /\ inflight' = Call("textgen", <<>>)
                     /\ page_text' = pt
                     /\ tag_meta' = EmptyTagMeta(pt)
                     /\ UNCHANGED <<parse_exc, tag_structured, combined_product,
                                    eco_score, job_exc, job_result>>
                ELSE /\ parse_exc' = Exc("RuntimeError", 0, "Missing Gemini API key")
                     /\ CandidateProceed(deep_tags, pt, EmptyDict, EmptyTagMeta(pt))
    /\ UNCHANGED <<tagVars_but_call, job, prod, ocr_reply>>

\* generate_content of the product-page parse returns (no timeout attached)
CandidateParseReturn ==
    /\ jpc = "parse_call" /\ job = "candidate"
    /\ \E greply \in GenReplies :
         LET o == ParseProductOutcome(greply)
         IN  /\ greply.kind # "silent"
             /\ IF o.ok
                THEN /\ CandidateProceed(deep_tags, page_text, o.val,
                                         from_gemini_response(page_text, o.val))
                     /\ UNCHANGED parse_exc
                ELSE IF CaughtByChain(o.exc)
                THEN /\ parse_exc' = o.exc
                     /\ CandidateProceed(deep_tags, page_text, EmptyDict,
                                         EmptyTagMeta(page_text))
                ELSE /\ parse_exc' = o.exc
                     /\ JobFail(o.exc)
                     /\ UNCHANGED <<page_text, tag_structured, tag_meta,
                                    combined_product>>
    /\ UNCHANGED <<tagVars_but_call, job, prod, page_reply, ocr_reply>>

\* generate_content of _gemini_explanation returns (no timeout attached)
JobExplainReturn ==
    /\ jpc = "explain_call"
    /\ \E explanation \in ExplanationsReturned :
         LET eco == compute_eco_score(combined_product, tag_structured, deep_tags,
                                      explanation)
         IN  /\ eco_score' = eco
             /\ job_result' = JobResult(TRUE,
                                  IF job = "candidate" THEN prod.image ELSE "clothing.jpg",
                                  IF job = "candidate" THEN page_text ELSE tag_meta.raw_text,
                                  tag_structured, combined_product, eco)
    /\ jpc' = "done" /\ inflight' = NoCall
    /\ UNCHANGED <<tagVars_but_call, job, prod, page_reply, page_text, parse_exc,
                   tag_structured, tag_meta, combined_product, job_exc,
                   ocr_reply>>

ChainProducts ==
    { Product(1, 1, "USD", u, img) : u \in {"", ShopUrl}, img \in {"", "img-1"} }

InitChain ==
    /\ EnvInit /\ FanIdle /\ ScoreIdle /\ UnitIdle
    /\ tpc = "idle" /\ tag_entry = "deep_url" /\ inflight = NoCall
    /\ primary_attempts = 0 /\ secondary_attempts = 0
    /\ primary_reply = NoReply /\ primary_exc = NoExc /\ tag_exc = NoExc
    /\ deep_tags = NoTags
    /\ jpc = "start" /\ job = "candidate" /\ prod \in ChainProducts
    /\ page_reply = "none" /\ page_text = "" /\ parse_exc = NoExc
    /\ tag_structured = EmptyDict /\ tag_meta = EmptyTagMeta("")
    /\ combined_product = NoProduct /\ eco_score = NoEco
    /\ job_exc = NoExc /\ job_result = NoResult /\ ocr_reply = "none"
    /\ ParseIdle

NextChain ==
    \/ CandidateStart /\ UNCHANGED <<unitVars, scoreVars, fanVars, envVars, parseVars>>
    \/ CandidateTagReturn /\ UNCHANGED <<unitVars, scoreVars, fanVars, envVars, parseVars>>
    \/ CandidateFetchReturn /\ UNCHANGED <<unitVars, scoreVars, fanVars, envVars, parseVars>>
    \/ CandidateParseReturn /\ UNCHANGED <<unitVars, scoreVars, fanVars, envVars, parseVars>>
    \/ JobExplainReturn /\ UNCHANGED <<unitVars, scoreVars, fanVars, envVars, parseVars>>

SpecChain == InitChain /\ [][NextChain]_vars

\* ============================================== gemini_parse_tag_text
\* a fallback object that drops the OCR text
EmptySchema_no_text(text) ==
    [brand |-> None, product_name |-> None, size |-> None,
     material_composition |-> <<>>, materials |-> None, made_in |-> None,
     country_of_origin |-> None, origin |-> None, certifications |-> <<>>,
     care_instructions |-> <<>>, symbols |-> <<>>, other_text |-> None]

\* the object returned after the last failed attempt
EmptySchema(text) ==
    [brand |-> None, product_name |-> None, size |-> None,
     material_composition |-> <<>>, materials |-> None, made_in |-> None,
     country_of_origin |-> None, origin |-> None, certifications |-> <<>>,
     care_instructions |-> <<>>, symbols |-> <<>>,
     other_text |-> Or(text, None)]

TagTexts == {"", "100% COTTON MADE IN PERU"}

ParseRaise(e) ==
    /\ gpc' = "raised" /\ last_err' = e
    /\ UNCHANGED <<attempts, attempt_log, parse_result>>

\* _configure_gemini, the model object, and the first generate_content
ParseStart ==
    /\ gpc = "start"
    /\ IF gemini_ok
       THEN /\ gpc' = "call" /\ attempts' = 1
            /\ inflight' = Call("textgen", <<>>)
            /\ UNCHANGED <<attempt_log, parse_result, last_err>>
       ELSE /\ ParseRaise(Exc("RuntimeError", 0, "Missing Gemini API key"))
            /\ inflight' = NoCall
    /\ UNCHANGED tag_text

\* one pass of the retry loop: the reply is parsed, a failure is kept in
\* last_err and the loop goes on; after the last pass the fallback object
ParseAttemptReturn ==
    /\ gpc = "call"
    /\ \E greply \in GenReplies :
         LET o == ParseProductOutcome(greply)
         IN  /\ greply.kind # "silent"
             /\ attempt_log' = Append(attempt_log, o)
             /\ IF o.ok
                THEN /\ parse_result' = o.val /\ gpc' = "returned"
                     /\ inflight' = NoCall
                     /\ UNCHANGED <<attempts, last_err>>
                ELSE /\ last_err' = o.exc
                     /\ IF attempts < PARSE_RETRIES
                        THEN /\ attempts' = attempts + 1
                             /\ UNCHANGED <<gpc, inflight, parse_result>>
                        ELSE /\ parse_result' = EmptySchema(tag_text)
                             /\ gpc' = "returned" /\ inflight' = NoCall
                             /\ UNCHANGED attempts
    /\ UNCHANGED tag_text

InitParse ==
    /\ EnvInit /\ FanIdle /\ ScoreIdle /\ UnitIdle /\ TagIdle /\ JobIdle
    /\ gpc = "start" /\ tag_text \in TagTexts /\ attempts = 0
    /\ attempt_log = <<>> /\ parse_result = EmptyDict /\ last_err = NoExc

NextParse ==
    \/ ParseStart /\ UNCHANGED <<unitVars, scoreVars, fanVars, envVars, tagVars_but_call, jobVars>>
    \/ ParseAttemptReturn /\ UNCHANGED <<unitVars, scoreVars, fanVars, envVars, tagVars_but_call, jobVars>>

SpecParse == InitParse /\ [][NextParse]_vars

\* ======================================= combine_lykdat_and_tag_metadata
OcrReplies == {"text", "blank", "api_error", "error", "silent"}

\* an OCR step that swallows its failures and yields no text
OcrOutcome_degrade(oreply) ==
    Outcome(TRUE, NoExc, IF oreply = "text" THEN "100% COTTON MADE IN PERU" ELSE "")

\* ocr_tag_image_with_vision once document_text_detection has been sent
OcrOutcome(oreply) ==
    IF oreply = "error" THEN Outcome(FALSE, Exc("GoogleAPIError", 0, ""), "")
    ELSE IF oreply = "silent" THEN Outcome(FALSE, Exc("DeadlineExceeded", 0, ""), "")
    ELSE IF oreply = "api_error"
    THEN Outcome(FALSE, Exc("RuntimeError", 0, "Vision API error"), "")
    ELSE Outcome(TRUE, NoExc, IF oreply = "text" THEN "100% COTTON MADE IN PERU" ELSE "")

ClothingImage == "clothing.jpg"

\* smart_deep_tag_image_file has returned or raised; then the OCR request
PrimaryTaggingDone ==
    /\ jpc = "tagging" /\ job = "primary" /\ tpc \in {"success", "fatal"}
    /\ IF tpc = "fatal" THEN JobFail(tag_exc)
       ELSE IF vision_ok
       THEN /\ jpc' = "ocr_call"
            /\ inflight' = Call("ocr", <<VISION_TIMEOUT>>)
            /\ UNCHANGED <<job_exc, eco_score, job_result>>
       ELSE JobFail(Exc("RuntimeError", 0, "google-cloud-vision is not installed"))
    /\ UNCHANGED <<tagVars_but_call, job, prod, page_reply, page_text, parse_exc,
                   tag_structured, tag_meta, combined_product, ocr_reply, parseVars>>

\* document_text_detection returns; with its text gemini_parse_tag_text starts
PrimaryOcrReturn ==
    /\ jpc = "ocr_call" /\ job = "primary"
    /\ \E oreply \in OcrReplies :
         LET o == OcrOutcome(oreply)
         IN  /\ ocr_reply' = oreply
             /\ IF o.ok
                THEN /\ jpc' = "structuring" /\ gpc' = "start" /\ tag_text' = o.val
                     /\ inflight' = NoCall
                     /\ UNCHANGED <<job_exc, eco_score, job_result>>
                ELSE JobFail(o.exc) /\ UNCHANGED <<gpc, tag_text>>
    /\ UNCHANGED <<tagVars_but_call, job, prod, page_reply, page_text, parse_exc,
                   tag_structured, tag_meta, combined_product,
                   attempts, attempt_log, parse_result, last_err>>

\* gemini_parse_tag_text has returned or raised; then merge and scoring
PrimaryStructured ==
    /\ jpc = "structuring" /\ job = "primary" /\ gpc \in {"returned", "raised"}
    /\ IF gpc = "raised"
       THEN /\ JobFail(last_err)
            /\ UNCHANGED <<page_text, tag_structured, tag_meta, combined_product>>
       ELSE LET tm == from_gemini_response(tag_text, parse_result)
                product_from_tags ==
                    deep_tags_to_product_metadata(deep_tags, ClothingImage)
            IN  JobProceed(MergePrimary(product_from_tags, tm), ClothingImage,
                           "", tm.raw_structured, tm, deep_tags)
    /\ UNCHANGED <<tagVars_but_call, job, prod, page_reply, parse_exc, ocr_reply,
                   parseVars>>

InitPrimary ==
    /\ EnvInit /\ FanIdle /\ ScoreIdle /\ UnitIdle /\ TagStartState("smart_file") /\ ParseIdle
    /\ jpc = "tagging" /\ job = "primary" /\ prod = NoProd
    /\ page_reply = "none" /\ page_text = "" /\ parse_exc = NoExc
    /\ tag_structured = EmptyDict /\ tag_meta = EmptyTagMeta("")
    /\ combined_product = NoProduct /\ eco_score = NoEco
    /\ job_exc = NoExc /\ job_result = NoResult /\ ocr_reply = "none"

NextPrimary ==
    \/ SmartDeepTagStart /\ UNCHANGED <<unitVars, scoreVars, fanVars, envVars, jobVars, parseVars>>
    \/ SmartPrimaryReturn /\ UNCHANGED <<unitVars, scoreVars, fanVars, envVars, jobVars, parseVars>>
    \/ VisionReturn /\ UNCHANGED <<unitVars, scoreVars, fanVars, envVars, jobVars, parseVars>>
    \/ RefineReturn /\ UNCHANGED <<unitVars, scoreVars, fanVars, envVars, jobVars, parseVars>>
    \/ PrimaryTaggingDone /\ UNCHANGED <<unitVars, envVars, fanVars, scoreVars>>
    \/ PrimaryOcrReturn /\ UNCHANGED <<unitVars, envVars, fanVars, scoreVars>>
    \/ ParseStart /\ UNCHANGED <<unitVars, scoreVars, fanVars, envVars, tagVars_but_call, jobVars>>
    \/ ParseAttemptReturn /\ UNCHANGED <<unitVars, scoreVars, fanVars, envVars, tagVars_but_call, jobVars>>
    \/ PrimaryStructured /\ UNCHANGED <<unitVars, envVars, fanVars, scoreVars>>
    \/ JobExplainReturn /\ UNCHANGED <<unitVars, scoreVars, fanVars, envVars, parseVars>>

SpecPrimary == InitPrimary /\ [][NextPrimary]_vars

\* ================================== find_similar_clothing_full_pipeline
\* One candidate job's collaborators answer according to a scenario: the
\* replies of the tagging request, the page fetch, the product-page parse and
\* the explanation call.
Scenario(tag, page, parse, explain) ==
    [tag |-> tag, page |-> page, parse |-> parse, explain |-> explain]

TagOk == Reply("http", 200, "json")
ScOk == Scenario(TagOk, "html", GenReply("text", <<"{", "m", "}">>),
                 GenReply("text", <<"n">>))
ScQuota == [ScOk EXCEPT !.tag = Reply("http", STATUS_FORBIDDEN, LimitText)]
ScNetDown == [ScOk EXCEPT !.tag = Reply("neterr", 0, "")]
ScPageDown == [ScOk EXCEPT !.page = "neterr"]
ScParseJunk == [ScOk EXCEPT !.parse = GenReply("text", <<"n">>)]
ScSilentParse == [ScOk EXCEPT !.parse = GenReply("silent", <<>>)]

\* the page text a job works with
PageTextOf(p, sc) ==
    LET html == IF p.url # "" THEN safe_get(sc.page) ELSE None
    IN  IF Truthy(html) THEN html ELSE ""

\* _build_similar_product_object run to its end under one scenario: the
\* object it returns, or the exception that leaves it
_build_similar_product_object(p, sc) ==
    LET image_url == p.image
        tagged == IF lykdat_key THEN DeepTagOutcome(sc.tag)
                  ELSE Outcome(FALSE, MissingKeyExc, NoTags)
        pt == PageTextOf(p, sc)
        parsed == IF gemini_ok THEN ParseProductOutcome(sc.parse)
                  ELSE Outcome(FALSE, Exc("RuntimeError", 0, "Missing Gemini API key"),
                               EmptyDict)
        structured == pt # "" /\ parsed.ok
        ts == IF structured THEN parsed.val ELSE EmptyDict
        tm == IF structured THEN from_gemini_response(pt, parsed.val)
              ELSE EmptyTagMeta(pt)
        merged == MergeCandidate(p,
                      deep_tags_to_product_metadata(tagged.val, Or(p.url, image_url)),
                      tm, ts, image_url)
        eco == compute_eco_score(merged, ts, tagged.val,
                   IF gemini_ok THEN Explanation(sc.explain)
                   ELSE "template without client")
    IN  IF image_url = ""
        THEN Outcome(FALSE, Exc("RuntimeError", 0, "No image URL found"), NoResult)
        ELSE IF ~tagged.ok THEN Outcome(FALSE, tagged.exc, NoResult)
        ELSE IF pt # "" /\ ~parsed.ok /\ ~CaughtByChain(parsed.exc)
        THEN Outcome(FALSE, parsed.exc, NoResult)
        ELSE Outcome(TRUE, NoExc, JobResult(TRUE, image_url, pt, ts, merged, eco))

\* the job reaches a generate_content call that never answers
NeverReturns(p, sc) ==
    /\ p.image # "" /\ lykdat_key /\ DeepTagOutcome(sc.tag).ok /\ gemini_ok
    /\ \/ PageTextOf(p, sc) # "" /\ sc.parse.kind = "silent"
       \/ sc.explain.kind = "silent"

\* global_search_image_file once the request has been sent
SearchOutcome(reply) ==
    IF reply.kind = "neterr" THEN Outcome(FALSE, Exc("ConnectionError", 0, ""), <<>>)
    ELSE IF reply.kind = "silent" THEN Outcome(FALSE, Exc("Timeout", 0, ""), <<>>)
    ELSE IF ~RespOk(reply)
    THEN Outcome(FALSE, Exc("RuntimeError", reply.status, reply.body), <<>>)
    ELSE IF reply.body # "json"
    THEN Outcome(FALSE, Exc("RuntimeError", 0, "Failed to parse JSON"), <<>>)
    ELSE Outcome(TRUE, NoExc, <<>>)

\* a pool capped only by the number of products
DefaultWorkers_uncapped(k) == k

\* max_workers = min(8, len(selected_products))
DefaultWorkers(k) == Min(POOL_CAP, k)

\* except Exception only for errors of the runtime-error class
CaughtByWorker_runtime(e) == e.cls = "RuntimeError"

\* except Exception in the sequential loop and in _worker
CaughtByWorker(e) == TRUE

\* results collected in the order the jobs complete
StoreResult_as_completed(res, i, r) ==
    LET over == { j \in 1..Len(job_state) : job_state[j] \in {"ok", "failed"} }
    IN  [res EXCEPT ![Cardinality(over) + 1] = r]

\* executor.map yields the result of the i-th product at position i
StoreResult(res, i, r) == [res EXCEPT ![i] = r]

Running == { i \in 1..Len(job_state) : job_state[i] = "running" }
Pending == { i \in 1..Len(job_state) : job_state[i] = "pending" }
AllJobsOver ==
    \A i \in 1..Len(job_state) : job_state[i] \in {"ok", "failed"}
\* a filter that keeps every entry
NotNone_keep_all(r) == TRUE

\* [r for r in results if r is not None]
NotNone(r) == r.ok

\* the call is made: the search credential is resolved, the request is sent
FanStart ==
    /\ fpc = "start"
    /\ IF lykdat_key
       THEN /\ fpc' = "search_call"
            /\ inflight' = Call("search", <<SEARCH_TIMEOUT>>)
            /\ UNCHANGED fan_exc
       ELSE /\ fpc' = "raised" /\ fan_exc' = MissingKeyExc
            /\ UNCHANGED inflight
    /\ UNCHANGED <<max_results, max_workers, workers, search_reply, flat_products,
                   selected_products, executor, job_state, results, out,
                   catalog, upstream>>

\* the search returns: flatten, select, decide how to run the jobs
FanSearchReturn ==
    /\ fpc = "search_call"
    /\ \E reply \in HttpReplies : \E groups \in catalog :
         LET o == SearchOutcome(reply)
             flat == _flatten_global_results(groups)
             selected == select_us_biased_products(flat, max_results)
             w == IF max_workers.given THEN max_workers.value
                  ELSE DefaultWorkers(Len(selected))
         IN  /\ search_reply' = reply
             /\ inflight' = NoCall
             /\ IF ~o.ok
                THEN /\ fpc' = "raised" /\ fan_exc' = o.exc
                     /\ UNCHANGED <<flat_products, selected_products, workers,
                                    executor, job_state, results>>
                ELSE /\ flat_products' = flat
                     /\ selected_products' = selected
                     /\ UNCHANGED fan_exc
                     /\ IF selected = <<>>
                        THEN /\ fpc' = "returned"
                             /\ UNCHANGED <<workers, executor, job_state, results>>
                        ELSE /\ workers' = w
                             /\ job_state' = [i \in 1..Len(selected) |-> "pending"]
                             /\ results' = [i \in 1..Len(selected) |-> NoResult]
                             /\ IF w <= 1
                                THEN fpc' = "sequential" /\ UNCHANGED executor
                                ELSE fpc' = "pool" /\ executor' = "open"
    /\ UNCHANGED <<max_results, max_workers, out, catalog, upstream>>

\* the sequential loop enters the next product
SeqStartJob ==
    /\ fpc = "sequential" /\ Running = {} /\ Pending # {}
    /\ LET i == CHOOSE j \in Pending : \A k \in Pending : j <= k
       IN  job_state' = [job_state EXCEPT ![i] = "running"]
    /\ UNCHANGED <<fpc, max_results, max_workers, workers, search_reply, flat_products,
                   selected_products, executor, results, out, fan_exc,
                   catalog, upstream, inflight>>

\* the product's job ends: out.append(item), or the warning and continue
SeqFinishJob ==
    /\ fpc = "sequential"
    /\ \E i \in Running : \E sc \in upstream :
         LET o == _build_similar_product_object(selected_products[i], sc)
         IN  /\ ~NeverReturns(selected_products[i], sc)
             /\ IF o.ok
                THEN /\ job_state' = [job_state EXCEPT ![i] = "ok"]
                     /\ results' = StoreResult(results, i, o.val)
                     /\ out' = Append(out, o.val)
                     /\ UNCHANGED <<fpc, fan_exc>>
                ELSE /\ job_state' = [job_state EXCEPT ![i] = "failed"]
                     /\ results' = StoreResult(results, i, NoResult)
                     /\ UNCHANGED out
                     /\ IF CaughtByWorker(o.exc)
                        THEN UNCHANGED <<fpc, fan_exc>>
                        ELSE fpc' = "raised" /\ fan_exc' = o.exc
    /\ UNCHANGED <<max_results, max_workers, workers, search_reply, flat_products,
                   selected_products, executor, catalog, upstream, inflight>>

\* the loop is exhausted: return out
SeqReturn ==
    /\ fpc = "sequential" /\ AllJobsOver
    /\ fpc' = "returned"
    /\ UNCHANGED <<max_results, max_workers, workers, search_reply, flat_products,
                   selected_products, executor, job_state, results, out,
                   fan_exc, catalog, upstream, inflight>>

\* a pool thread takes the next submitted product, if a thread is free
PoolStartJob ==
    /\ fpc = "pool" /\ executor = "open" /\ Pending # {}
    /\ Cardinality(Running) < workers
    /\ LET i == CHOOSE j \in Pending : \A k \in Pending : j <= k
       IN  job_state' = [job_state EXCEPT ![i] = "running"]
    /\ UNCHANGED <<fpc, max_results, max_workers, workers, search_reply, flat_products,
                   selected_products, executor, results, out, fan_exc,
                   catalog, upstream, inflight>>

\* _worker ends for one running product, in any order among the running
PoolFinishJob ==
    /\ fpc = "pool" /\ executor = "open"
    /\ \E i \in Running : \E sc \in upstream :
         LET o == _build_similar_product_object(selected_products[i], sc)
         IN  /\ ~NeverReturns(selected_products[i], sc)
             /\ IF o.ok
                THEN /\ job_state' = [job_state EXCEPT ![i] = "ok"]
                     /\ results' = StoreResult(results, i, o.val)
                     /\ UNCHANGED <<fpc, fan_exc, executor>>
                ELSE /\ job_state' = [job_state EXCEPT ![i] = "failed"]
                     /\ IF CaughtByWorker(o.exc)
                        THEN /\ results' = StoreResult(results, i, NoResult)
                             /\ UNCHANGED <<fpc, fan_exc, executor>>
                        ELSE /\ fpc' = "raised" /\ fan_exc' = o.exc
                             /\ executor' = "shutdown"
                             /\ UNCHANGED results
    /\ UNCHANGED <<max_results, max_workers, workers, search_reply, flat_products,
                   selected_products, out, catalog, upstream, inflight>>

\* list(executor.map(...)) is complete: the pool shuts down, None is filtered
PoolCollect ==
    /\ fpc = "pool" /\ executor = "open" /\ AllJobsOver
    /\ executor' = "shutdown"
    /\ out' = SelectSeq(results, NotNone)
    /\ fpc' = "returned"
    /\ UNCHANGED <<max_results, max_workers, workers, search_reply, flat_products,
                   selected_products, job_state, results, fan_exc,
                   catalog, upstream, inflight>>

Images == <<"img-1", "img-2", "img-3", "img-4", "img-5", "img-6", "img-7",
            "img-8", "img-9", "img-10", "img-11", "img-12">>

\* search results of n products in one result group, each product either
\* priced in USD or in EUR, the scores all equal or rising with the position
Listing(n, usd, rising) ==
    IF n = 0 THEN <<>>
    ELSE << [i \in 1..n |->
               Product(i, IF rising THEN i ELSE 1,
                       IF i \in usd THEN "USD" ELSE "EUR", ShopUrl, Images[i])] >>

Catalog ==
    { Listing(n, usd, rising) :
        n \in 0..MaxProducts, usd \in SUBSET (1..MaxProducts), rising \in BOOLEAN }

WorkerArgs == {NoneInt} \cup { OptInt(TRUE, w) : w \in 0..MaxWorkersArg }

FanInitWith(cat, ups, mrs, mws) ==
    /\ EnvInit /\ TagIdle /\ JobIdle /\ ParseIdle /\ ScoreIdle /\ UnitIdle
    /\ fpc = "start" /\ max_results \in mrs /\ max_workers \in mws
    /\ workers = 0
    /\ search_reply = NoReply /\ flat_products = <<>>
    /\ selected_products = <<>> /\ executor = "none" /\ job_state = <<>>
    /\ results = <<>> /\ out = <<>> /\ fan_exc = NoExc
    /\ catalog = cat /\ upstream = ups

\* (the tagging switch and the vision client are not read on this path)
InitFan ==
    /\ FanInitWith(Catalog, {ScOk, ScQuota, ScNetDown, ScPageDown, ScSilentParse},
                   0..MaxResults, WorkerArgs)
    /\ use_lykdat /\ vision_ok

NextFan ==
    \/ FanStart /\ UNCHANGED <<unitVars, scoreVars, envVars, tagVars_but_call, jobVars, parseVars>>
    \/ FanSearchReturn /\ UNCHANGED <<unitVars, scoreVars, envVars, tagVars_but_call, jobVars, parseVars>>
    \/ SeqStartJob /\ UNCHANGED <<unitVars, scoreVars, envVars, tagVars_but_call, jobVars, parseVars>>
    \/ SeqFinishJob /\ UNCHANGED <<unitVars, scoreVars, envVars, tagVars_but_call, jobVars, parseVars>>
    \/ SeqReturn /\ UNCHANGED <<unitVars, scoreVars, envVars, tagVars_but_call, jobVars, parseVars>>
    \/ PoolStartJob /\ UNCHANGED <<unitVars, scoreVars, envVars, tagVars_but_call, jobVars, parseVars>>
    \/ PoolFinishJob /\ UNCHANGED <<unitVars, scoreVars, envVars, tagVars_but_call, jobVars, parseVars>>
    \/ PoolCollect /\ UNCHANGED <<unitVars, scoreVars, envVars, tagVars_but_call, jobVars, parseVars>>

SpecFan == InitFan /\ [][NextFan]_vars

\* many uniform products, so that the pool cap is reached and exceeded
PoolCatalog ==
    { Listing(n, 1..n, FALSE) : n \in {1, 2, PoolProducts} }

InitPool ==
    /\ FanInitWith(PoolCatalog, {ScOk, ScQuota}, {PoolProducts},
                   {NoneInt, OptInt(TRUE, 2), OptInt(TRUE, PoolProducts)})
    /\ use_lykdat /\ vision_ok /\ lykdat_key /\ gemini_ok

SpecPool == InitPool /\ [][NextFan]_vars

\* ================================================= eco scoring, by step
\* ---- _detect_material_tokens, then _weighted_material_impact
\* the segments a materials text is put together from
Segments ==
    { <<>>, <<"cotton">>, <<"80%", "cotton">>, <<"0%", "cotton">>,
      <<"20%", "polyester">>, <<"0%", "polyester">>,
      <<"100%", "organic cotton">>, <<"Outer:", "100%", "organic cotton">>,
      <<"Lining:", "recycled polyester">>, <<"recycled nylon">>,
      <<"zzz">>, <<"polyblend">>, <<"50%", "80%", "cotton">>, <<"80%">> }

\* the materials texts of n segments, a separator between two segments
RECURSIVE MaterialsTexts(_)
MaterialsTexts(n) ==
    IF n = 0 THEN { <<>> }
    ELSE IF n = 1 THEN Segments
    ELSE { t \o <<sep>> \o seg :
             t \in MaterialsTexts(n - 1), sep \in Separators, seg \in Segments }

DetectTokens ==
    /\ dpc = "text"
    /\ mat_tokens' = _detect_material_tokens(mat_text)
    /\ dpc' = "tokens"
    /\ UNCHANGED <<mat_text, mat_impact>>

WeighTokens ==
    /\ dpc = "tokens"
    /\ mat_impact' = _weighted_material_impact(mat_tokens)
    /\ dpc' = "weighted"
    /\ UNCHANGED <<mat_text, mat_tokens>>

InitDetect ==
    /\ EnvInit /\ TagIdle /\ JobIdle /\ ParseIdle /\ FanIdle /\ UnitIdle /\ CertIdle /\ EcoIdle
    /\ use_lykdat /\ lykdat_key /\ gemini_ok /\ vision_ok
    /\ dpc = "text"
    /\ mat_text \in UNION { MaterialsTexts(n) : n \in 0..MaxSegments }
    /\ mat_tokens = <<>> /\ mat_impact = RZero

NextDetect ==
    \/ DetectTokens /\ UNCHANGED <<unitVars, envVars, tagVars, jobVars, parseVars, fanVars, certVars, ecoVars>>
    \/ WeighTokens /\ UNCHANGED <<unitVars, envVars, tagVars, jobVars, parseVars, fanVars, certVars, ecoVars>>

SpecDetect == InitDetect /\ [][NextDetect]_vars

\* ---- steps 2 and 3 of compute_eco_score: base score, then certifications
MaterialsStrings ==
    { "", "100% organic cotton", "80% cotton, 20% polyester", "one size" }
CertStrings ==
    { "", "GOTS", "Fair Trade Certified", "Fair", "Trade", "GRS certified",
      "OEKO-TEX Standard 100", "BCI cotton", "handmade" }
CertLists == UNION { [1..n -> CertStrings] : n \in 0..MaxCerts }

BaseScore ==
    /\ cpc = "start"
    /\ cert_base' = _weighted_material_impact(
                        _detect_material_tokens(MaterialWords(cert_materials)))
    /\ cpc' = "based"
    /\ UNCHANGED <<cert_materials, cert_list, cert_adjusted>>

AdjustForCertifications ==
    /\ cpc = "based"
    /\ cert_adjusted' = _adjust_for_certifications(cert_base, cert_list)
    /\ cpc' = "adjusted"
    /\ UNCHANGED <<cert_materials, cert_base, cert_list>>

InitCerts ==
    /\ EnvInit /\ TagIdle /\ JobIdle /\ ParseIdle /\ FanIdle /\ UnitIdle /\ DetectIdle /\ EcoIdle
    /\ use_lykdat /\ lykdat_key /\ gemini_ok /\ vision_ok
    /\ cpc = "start"
    /\ cert_materials \in MaterialsStrings
    /\ cert_list \in CertLists
    /\ cert_base = RZero /\ cert_adjusted = RZero

NextCerts ==
    \/ BaseScore /\ UNCHANGED <<unitVars, envVars, tagVars, jobVars, parseVars, fanVars, detectVars, ecoVars>>
    \/ AdjustForCertifications /\ UNCHANGED <<unitVars, envVars, tagVars, jobVars, parseVars, fanVars, detectVars, ecoVars>>

SpecCerts == InitCerts /\ [][NextCerts]_vars

\* ---- compute_eco_score and _score_to_grade, then the 0-100 presentation
ScoreInput(product, ts, tags) == [product |-> product, ts |-> ts, tags |-> tags]

ProductMaterials ==
    { None, "", "   ", "100% organic cotton", "80% cotton, 20% polyester",
      "0% cotton, 0% polyester", "80% cotton, 80% polyester", "one size",
      "98% cotton, 2% elastane" }
ProductCerts ==
    { <<>>, <<"GOTS">>,
      <<"GOTS", "Fair Trade Certified", "GRS certified", "OEKO-TEX Standard 100">> }
ScoreProducts ==
    { ProductMetadata("https://shop.example/p", "Shirt", None, None, m, o, c, None) :
        m \in ProductMaterials, o \in {None, "Portugal"}, c \in ProductCerts }

\* tag_structured: absent or empty, or a dict with some of the keys materials,
\* material_composition and certifications
ScoreHints ==
    { EmptyDict,
      [brand |-> "Acme"],
      [materials |-> "recycled polyester"],
      [materials |-> "   "],
      [material_composition |->
          <<Component("cotton", None, 80), Component(None, "polyester", 20)>>],
      [material_composition |-> <<Component(None, None, 80)>>],
      [materials |-> "recycled polyester",
       material_composition |-> <<Component("polyester", None, NoPct)>>],
      [materials |-> "recycled polyester",
       material_composition |-> <<Component(None, "", 20)>>],
      [certifications |-> <<"GOTS", "BCI cotton">>] }

\* lykdat_raw: absent, or a tagging payload with or without a fabric label
ScoreTags ==
    { NoTags,
      DeepTagResult(<<>>, <<"denim">>, "lykdat", FALSE),
      DeepTagResult(<<>>, <<"Top">>, "lykdat", FALSE) }

\* the impact scores _score_to_grade and the presentation are applied to
\* directly: every hundredth of [1.0, 5.0]
ScoreGrid == { Hundredths(h) : h \in 100..500 }

ComputeEcoScore ==
    /\ epc = "start" /\ score_entry = "eco"
    /\ \E explanation \in (IF gemini_ok THEN ExplanationsReturned
                           ELSE {"template without client"}) :
         score_eco' = compute_eco_score(score_in.product, score_in.ts,
                                        score_in.tags, explanation)
    /\ epc' = "scored"
    /\ UNCHANGED <<score_entry, score_in, impact_in, grade_out, shown>>

ScoreToGrade ==
    /\ epc = "start" /\ score_entry = "grade"
    /\ grade_out' = _score_to_grade(impact_in)
    /\ epc' = "scored"
    /\ UNCHANGED <<score_entry, score_in, impact_in, score_eco, shown>>

\* the impact score the presentation code reads
ImpactShown == IF score_entry = "eco" THEN score_eco.impact_score ELSE impact_in

ScoreTo100 ==
    /\ epc = "scored"
    /\ shown' = _score_to_100(ImpactShown)
    /\ epc' = "shown"
    /\ UNCHANGED <<score_entry, score_in, impact_in, grade_out, score_eco>>

InitScore ==
    /\ EnvInit /\ TagIdle /\ JobIdle /\ ParseIdle /\ FanIdle /\ UnitIdle /\ DetectIdle /\ CertIdle
    /\ use_lykdat /\ lykdat_key /\ vision_ok
    /\ epc = "start"
    /\ \/ /\ score_entry = "eco"
          /\ score_in \in { ScoreInput(p, ts, tags) :
                              p \in ScoreProducts, ts \in ScoreHints, tags \in ScoreTags }
          /\ impact_in = RZero
       \/ /\ score_entry = "grade"
          /\ score_in = <<>>
          /\ impact_in \in ScoreGrid
          /\ gemini_ok
    /\ grade_out = None /\ score_eco = NoEco /\ shown = -1

NextScore ==
    \/ ComputeEcoScore /\ UNCHANGED <<unitVars, envVars, tagVars, jobVars, parseVars, fanVars, detectVars, certVars>>
    \/ ScoreToGrade /\ UNCHANGED <<unitVars, envVars, tagVars, jobVars, parseVars, fanVars, detectVars, certVars>>
    \/ ScoreTo100 /\ UNCHANGED <<unitVars, envVars, tagVars, jobVars, parseVars, fanVars, detectVars, certVars>>

SpecScore == InitScore /\ [][NextScore]_vars

\* ---- the merge of the sources of one item, then its scoring
\* A notes text is a sequence of pieces; the delimiters "; " and ", " are
\* pieces of their own.

\* delim.join(parts), each part a sequence of pieces
RECURSIVE JoinWith(_, _)
JoinWith(delim, parts) ==
    IF parts = <<>> THEN <<>>
    ELSE IF Len(parts) = 1 THEN Head(parts)
    ELSE Head(parts) \o <<delim>> \o JoinWith(delim, Tail(parts))

Pieces(strings) == [i \in 1..Len(strings) |-> <<strings[i]>>]

\* eco_notes of deep_tags_to_product_metadata (the tagging replies of the
\* model carry no colours)
TagNotes(tags) ==
    LET notes_parts ==
            (IF tags.items # <<>> THEN << <<"item: ", tags.items[1]>> >> ELSE <<>>)
            \o (IF tags.labels # <<>>
                THEN << <<"labels: ">> \o JoinWith(", ", Pieces(tags.labels)) >>
                ELSE <<>>)
    IN  IF notes_parts # <<>> THEN JoinWith("; ", notes_parts) ELSE NoNotes

\* notes in which a later part replaces the earlier ones
MergeNotes_overwrite(eco_notes, size, care_instructions) ==
    IF care_instructions # <<>>
    THEN <<"care: ">> \o JoinWith("; ", Pieces(care_instructions))
    ELSE IF Truthy(size) THEN <<"size: ", size>>
    ELSE eco_notes

\* notes_parts and eco_notes of both merge sites
MergeNotes(eco_notes, size, care_instructions) ==
    LET notes_parts ==
            (IF eco_notes # NoNotes THEN <<eco_notes>> ELSE <<>>)
            \o (IF Truthy(size) THEN << <<"size: ", size>> >> ELSE <<>>)
            \o (IF care_instructions # <<>>
                THEN << <<"care: ">> \o JoinWith("; ", Pieces(care_instructions)) >>
                ELSE <<>>)
    IN  IF notes_parts # <<>> THEN JoinWith("; ", notes_parts) ELSE NoNotes

\* the structured dicts the parse step hands to the merge
MergeHints ==
    { EmptyDict,
      [brand |-> "Tag Brand", product_name |-> "Tag Tee",
       materials |-> "100% organic cotton", made_in |-> "Portugal",
       certifications |-> <<"GOTS", "BCI cotton", "GOTS">>,
       size |-> "M", care_instructions |-> <<"wash cold", "line dry">>],
      [brand |-> "", product_name |-> "", product |-> "Tag Tee",
       materials |-> "", origin |-> "Portugal", certifications |-> <<"", "GOTS">>],
      [brand |-> None, made_in |-> "", country_of_origin |-> "Portugal",
       size |-> "M"],
      [materials |-> "recycled polyester", care_instructions |-> <<"wash cold">>],
      [certifications |-> <<IntCert>>],
      [certifications |-> <<"GOTS", None, IntCert, "100">>],
      [brand |-> "Tag Brand", certifications |-> <<"BCI cotton", "GOTS">>] }

\* the tagging results: nothing recognised, an item, an item with a label
MergeTags ==
    { NoTags,
      DeepTagResult(<<"Jeans">>, <<>>, "lykdat", FALSE),
      DeepTagResult(<<"Jeans">>, <<"denim", "blue">>, "lykdat", FALSE) }

\* the search results a candidate is built from
MergeProducts ==
    { Product(1, 1, "USD", ShopUrl, "img-1"),
      [Product(1, 1, "USD", ShopUrl, "img-1") EXCEPT !.brand_name = "Search Brand"],
      [Product(1, 1, "USD", "", "img-1") EXCEPT !.name = None, !.brand_name = ""] }

MergeInput(data, tags, p) == [data |-> data, tags |-> tags, prod |-> p]

\* the source URL the tagging result is converted with
MergeSourceUrl ==
    IF merge_site = "primary" THEN "file:///clothing.jpg"
    ELSE Or(merge_in.prod.url, merge_in.prod.image)

\* TagMetadata.from_gemini_response on the structured dict
BuildTagMeta ==
    /\ mpc = "start"
    /\ merge_tm' = from_gemini_response("text", merge_in.data)
    /\ mpc' = "structured"
    /\ UNCHANGED <<merge_site, merge_in, merge_product, merge_notes, merge_eco>>

\* the merge into one ProductMetadata, at either site
MergeSources ==
    /\ mpc = "structured"
    /\ LET from_tags == deep_tags_to_product_metadata(merge_in.tags, MergeSourceUrl)
       IN  /\ merge_product' =
                 IF merge_site = "primary" THEN MergePrimary(from_tags, merge_tm)
                 ELSE MergeCandidate(merge_in.prod, from_tags, merge_tm,
                                     merge_in.data, merge_in.prod.image)
           /\ merge_notes' = MergeNotes(TagNotes(merge_in.tags),
                                        Get(merge_in.data, "size"),
                                        GetList(merge_in.data, "care_instructions"))
    /\ mpc' = "merged"
    /\ UNCHANGED <<merge_site, merge_in, merge_tm, merge_eco>>

\* compute_eco_score on the merged record and the structured dict
MergeScore ==
    /\ mpc = "merged"
    /\ merge_eco' = compute_eco_score(merge_product, merge_in.data, merge_in.tags,
                                      "template without client")
    /\ mpc' = "scored"
    /\ UNCHANGED <<merge_site, merge_in, merge_tm, merge_product, merge_notes>>

InitMerge ==
    /\ EnvInit /\ TagIdle /\ JobIdle /\ ParseIdle /\ FanIdle /\ ScoreIdle /\ SelectIdle
    /\ ExplainIdle /\ SharedIdle
    /\ use_lykdat /\ lykdat_key /\ ~gemini_ok /\ vision_ok
    /\ mpc = "start" /\ merge_site \in {"primary", "candidate"}
    /\ merge_in \in { MergeInput(data, tags, p) :
                        data \in MergeHints, tags \in MergeTags,
                        p \in MergeProducts \cup {NoProd} }
    \* the primary item has no search result; a candidate without a URL has
    \* no page text, hence no structured dict
    /\ merge_site = "primary" <=> merge_in.prod = NoProd
    /\ merge_in.prod.url = "" /\ merge_site = "candidate" => merge_in.data = EmptyDict
    /\ merge_tm = EmptyTagMeta("") /\ merge_product = NoProduct
    /\ merge_notes = NoNotes /\ merge_eco = NoEco

NextMerge ==
    \/ BuildTagMeta /\ UNCHANGED <<envVars, tagVars, jobVars, parseVars, fanVars, scoreVars, selectVars, explainVars, sharedVars>>
    \/ MergeSources /\ UNCHANGED <<envVars, tagVars, jobVars, parseVars, fanVars, scoreVars, selectVars, explainVars, sharedVars>>
    \/ MergeScore /\ UNCHANGED <<envVars, tagVars, jobVars, parseVars, fanVars, scoreVars, selectVars, explainVars, sharedVars>>

SpecMerge == InitMerge /\ [][NextMerge]_vars

\* ---- _flatten_global_results, then select_us_biased_products
\* the products a search can return: priced in USD or EUR, sold on an
\* allow-listed domain, on another domain or without a URL, scored 1 or 2
SelectProducts(i) ==
    { Product(i, s, c, u, Images[i]) :
        s \in {1, 2}, c \in {"USD", "EUR"}, u \in {MacysUrl, ShopUrl, ""} }

\* the lists of n products, product i having the id i
RECURSIVE SelectLists(_)
SelectLists(n) ==
    IF n = 0 THEN { <<>> }
    ELSE { Append(l, p) : l \in SelectLists(n - 1), p \in SelectProducts(n) }

\* result_groups: the first product in one group, the others in a second
SelectGroups ==
    { IF l = <<>> THEN <<>> ELSE <<SubSeq(l, 1, 1), SubSeq(l, 2, Len(l))>> :
        l \in UNION { SelectLists(n) : n \in 0..MaxProducts } }

FlattenResults ==
    /\ spc = "start"
    /\ sel_flat' = _flatten_global_results(sel_groups)
    /\ spc' = "flat"
    /\ UNCHANGED <<sel_groups, sel_max, sel_out>>

SelectUsBiased ==
    /\ spc = "flat"
    /\ sel_out' = select_us_biased_products(sel_flat, sel_max)
    /\ spc' = "selected"
    /\ UNCHANGED <<sel_groups, sel_max, sel_flat>>

InitSelect ==
    /\ EnvInit /\ TagIdle /\ JobIdle /\ ParseIdle /\ FanIdle /\ ScoreIdle /\ MergeIdle
    /\ ExplainIdle /\ SharedIdle
    /\ use_lykdat /\ lykdat_key /\ gemini_ok /\ vision_ok
    /\ spc = "start" /\ sel_groups \in SelectGroups
    /\ sel_max \in 0..(MaxResults + 1)
    /\ sel_flat = <<>> /\ sel_out = <<>>

NextSelect ==
    \/ FlattenResults /\ UNCHANGED <<envVars, tagVars, jobVars, parseVars, fanVars, scoreVars, mergeVars, explainVars, sharedVars>>
    \/ SelectUsBiased /\ UNCHANGED <<envVars, tagVars, jobVars, parseVars, fanVars, scoreVars, mergeVars, explainVars, sharedVars>>

SpecSelect == InitSelect /\ [][NextSelect]_vars

\* ---- compute_eco_score at the granularity of _gemini_explanation
\* An explanation is a record: which text it is (kind) and, for a template,
\* the values the template prints.
ExplanationText(kind, grade, materials, certifications, impact) ==
    [kind |-> kind, grade |-> grade, materials |-> materials,
     certifications |-> certifications, impact |-> impact]

\* f"{impact_score:.1f}": the nearest tenth, a tie going to the even digit
\* (in tenths; the score is taken as the exact fraction)
OneDecimal(score) ==
    LET q == (10 * score.num) \div score.den
        r == (10 * score.num) % score.den
    IN  IF 2 * r < score.den THEN q
        ELSE IF 2 * r > score.den THEN q + 1
        ELSE IF q % 2 = 0 THEN q ELSE q + 1

\* f"{pct:.0f}%" on the percentages of the model
PctText(pct) ==
    CASE pct = 0 -> "0%" [] pct = 2 -> "2%" [] pct = 20 -> "20%"
      [] pct = 50 -> "50%" [] pct = 80 -> "80%" [] pct = 98 -> "98%"
      [] pct = 100 -> "100%"

\* material_summary
MaterialSummary(material_tokens) ==
    LET material_summary_parts ==
            [i \in 1..Len(material_tokens) |->
                IF material_tokens[i].pct # NoPct
                THEN <<PctText(material_tokens[i].pct), material_tokens[i].key>>
                ELSE <<material_tokens[i].key>>]
    IN  IF material_summary_parts # <<>> THEN JoinWith(", ", material_summary_parts)
        ELSE <<"unknown materials">>

\* cert_text
CertSummary(certifications) ==
    IF certifications # <<>> THEN JoinWith(", ", Pieces(certifications))
    ELSE <<"no major environmental certifications found">>

\* the sentence returned when _configure_gemini raises
TemplateWithoutClient(grade, impact_score, product, certifications) ==
    ExplanationText("template without client", grade,
                    <<Or(product.materials, "unknown")>>,
                    IF certifications # <<>> THEN certifications ELSE <<"none">>,
                    OneDecimal(impact_score))

\* the sentence returned when the generate_content call fails
TemplateAfterFailedCall(grade, impact_score, material_tokens, certifications) ==
    ExplanationText("template after failed call", grade,
                    MaterialSummary(material_tokens), CertSummary(certifications),
                    OneDecimal(impact_score))

\* the text of the response, which the model does not look into
GeminiText == ExplanationText("gemini text", None, <<>>, <<>>, 0)

\* _configure_gemini of ecoscore.py: the key, or RuntimeError
ConfigureOutcome ==
    IF gemini_ok THEN Outcome(TRUE, NoExc, "key")
    ELSE Outcome(FALSE, Exc("RuntimeError", 0, "Missing Gemini API key"), None)

\* generate_content and the check of response.text
GenerateOutcome(greply) ==
    IF greply.kind = "error" THEN Outcome(FALSE, Exc("ConnectionError", 0, ""), None)
    ELSE IF greply.text = <<>>
    THEN Outcome(FALSE, Exc("ValueError", 0, "Empty Gemini response"), None)
    ELSE Outcome(TRUE, NoExc, "text")

\* a handler for errors of the runtime-error class only
CaughtByExplanation_runtime(e) == e.cls = "RuntimeError"

\* except Exception, around _configure_gemini and around the call
CaughtByExplanation(e) == TRUE

\* what generate_content can answer when it answers
ExplainReplies ==
    { GenReply("text", <<"n">>), GenReply("text", <<>>), GenReply("error", <<>>) }

\* material_tokens of the scoring call
ExplainTokens ==
    _detect_material_tokens(ScoredMaterials(explain_in.product, explain_in.ts,
                                            explain_in.tags))

\* steps 1 to 5 of compute_eco_score: everything but the explanation
ExplainScoreProduct ==
    /\ xpc = "start"
    /\ explain_eco' = compute_eco_score(explain_in.product, explain_in.ts,
                                        explain_in.tags, None)
    /\ xpc' = "scored"
    /\ UNCHANGED <<explain_in, explain_out, explain_exc>>

\* _gemini_explanation returns text: compute_eco_score returns the EcoScore
ExplainReturn(text) ==
    /\ explain_out' = text
    /\ explain_eco' = EcoScore(explain_eco.grade, explain_eco.impact_score,
                               explain_eco.material_and_origin,
                               explain_eco.certifications, text.kind)
    /\ xpc' = "returned"
    /\ UNCHANGED <<explain_in, explain_exc>>

\* an exception leaves _gemini_explanation and compute_eco_score
ExplainRaise(e) ==
    /\ explain_exc' = e /\ xpc' = "raised"
    /\ UNCHANGED <<explain_in, explain_eco, explain_out>>

\* _gemini_explanation up to the generate_content call
ExplainConfigure ==
    /\ xpc = "scored"
    /\ IF ConfigureOutcome.ok
       THEN /\ xpc' = "explain_call"
            /\ UNCHANGED <<explain_in, explain_eco, explain_out, explain_exc>>
       ELSE IF CaughtByExplanation(ConfigureOutcome.exc)
       THEN ExplainReturn(TemplateWithoutClient(explain_eco.grade,
                              explain_eco.impact_score, explain_in.product,
                              explain_eco.certifications))
       ELSE ExplainRaise(ConfigureOutcome.exc)

\* generate_content answers
ExplainGenerateReturn ==
    /\ xpc = "explain_call"
    /\ \E greply \in ExplainReplies :
         IF GenerateOutcome(greply).ok THEN ExplainReturn(GeminiText)
         ELSE IF CaughtByExplanation(GenerateOutcome(greply).exc)
         THEN ExplainReturn(TemplateAfterFailedCall(explain_eco.grade,
                                explain_eco.impact_score, ExplainTokens,
                                explain_eco.certifications))
         ELSE ExplainRaise(GenerateOutcome(greply).exc)

InitExplain ==
    /\ EnvInit /\ TagIdle /\ JobIdle /\ ParseIdle /\ FanIdle /\ ScoreIdle
    /\ MergeIdle /\ SelectIdle /\ SharedIdle
    /\ use_lykdat /\ lykdat_key /\ vision_ok
    /\ xpc = "start"
    /\ explain_in \in { ScoreInput(p, ts, tags) :
                          p \in ScoreProducts, ts \in ScoreHints, tags \in ScoreTags }
    /\ explain_eco = NoEco /\ explain_out = <<>> /\ explain_exc = NoExc

NextExplain ==
    \/ ExplainScoreProduct /\ UNCHANGED <<envVars, tagVars, jobVars, parseVars, fanVars, scoreVars, mergeVars, selectVars, sharedVars>>
    \/ ExplainConfigure /\ UNCHANGED <<envVars, tagVars, jobVars, parseVars, fanVars, scoreVars, mergeVars, selectVars, sharedVars>>
    \/ ExplainGenerateReturn /\ UNCHANGED <<envVars, tagVars, jobVars, parseVars, fanVars, scoreVars, mergeVars, selectVars, sharedVars>>

SpecExplain == InitExplain /\ [][NextExplain]_vars

\* ---- the text-generation client configuration under the thread pool
\* genai.configure sets the api key of the one client of the process. Each
\* job of the pool calls _configure_gemini of similar_search.py before its
\* product-page parse and _configure_gemini of ecoscore.py before its
\* explanation. genai_config.by is the job that wrote last (0: none of them),
\* thread_key[t] the keys in effect at the generate_content calls of job t.
MaxThreads == 2

Threads == 1..MaxThreads

\* explicit_key or os.getenv(GEMINI_API_ENV_PRIMARY)
ParseKey(env) == Or(env.explicit, env.primary)

\* explicit_key or os.getenv(GEMINI_API_ENV_PRIMARY) or os.getenv(GEMINI_API_ENV_SECONDARY)
ExplainKey(env) == Or(Or(env.explicit, env.primary), env.secondary)

\* genai.configure(api_key=key) called by job t
GenaiConfigure(t, key) == genai_config' = [api_key |-> key, by |-> t]

\* _configure_gemini in gemini_parse_product_text_to_tag_structured; without
\* a key it raises and _build_similar_product_object goes on without the parse
ThreadParseConfigure(t) ==
    /\ thread_pc[t] = "parse_configure"
    /\ IF Truthy(ParseKey(key_env))
       THEN /\ GenaiConfigure(t, ParseKey(key_env))
            /\ thread_pc' = [thread_pc EXCEPT ![t] = "parse_generate"]
       ELSE /\ thread_pc' = [thread_pc EXCEPT ![t] = "explain_configure"]
            /\ UNCHANGED genai_config
    /\ UNCHANGED <<thread_key, key_env>>

\* generate_content of the parse, with the client as configured at that moment
ThreadParseGenerate(t) ==
    /\ thread_pc[t] = "parse_generate"
    /\ thread_key' = [thread_key EXCEPT ![t] = Append(@, genai_config.api_key)]
    /\ thread_pc' = [thread_pc EXCEPT ![t] = "explain_configure"]
    /\ UNCHANGED <<genai_config, key_env>>

\* _configure_gemini in _gemini_explanation; without a key the template is returned
ThreadExplainConfigure(t) ==
    /\ thread_pc[t] = "explain_configure"
    /\ IF Truthy(ExplainKey(key_env))
       THEN /\ GenaiConfigure(t, ExplainKey(key_env))
            /\ thread_pc' = [thread_pc EXCEPT ![t] = "explain_generate"]
       ELSE /\ thread_pc' = [thread_pc EXCEPT ![t] = "done"]
            /\ UNCHANGED genai_config
    /\ UNCHANGED <<thread_key, key_env>>

\* generate_content of the explanation
ThreadExplainGenerate(t) ==
    /\ thread_pc[t] = "explain_generate"
    /\ thread_key' = [thread_key EXCEPT ![t] = Append(@, genai_config.api_key)]
    /\ thread_pc' = [thread_pc EXCEPT ![t] = "done"]
    /\ UNCHANGED <<genai_config, key_env>>

\* the pool has taken MaxThreads candidates; a candidate whose page gave no
\* text skips the parse; the client may have been configured before the fan-out
InitShared ==
    /\ EnvInit /\ TagIdle /\ JobIdle /\ ParseIdle /\ FanIdle /\ ScoreIdle
    /\ MergeIdle /\ SelectIdle /\ ExplainIdle
    /\ use_lykdat /\ lykdat_key /\ vision_ok /\ gemini_ok
    /\ key_env \in [explicit : {None, "key-arg"}, primary : {None, "key-gemini"},
                    secondary : {None, "key-google"}]
    /\ genai_config \in [api_key : {None, "key-earlier"}, by : {0}]
    /\ thread_pc \in [Threads -> {"parse_configure", "explain_configure"}]
    /\ thread_key = [t \in Threads |-> <<>>]

NextShared ==
    \/ \E t \in Threads : ThreadParseConfigure(t) /\ UNCHANGED <<envVars, tagVars, jobVars, parseVars, fanVars, scoreVars, mergeVars, selectVars, explainVars>>
    \/ \E t \in Threads : ThreadParseGenerate(t) /\ UNCHANGED <<envVars, tagVars, jobVars, parseVars, fanVars, scoreVars, mergeVars, selectVars, explainVars>>
    \/ \E t \in Threads : ThreadExplainConfigure(t) /\ UNCHANGED <<envVars, tagVars, jobVars, parseVars, fanVars, scoreVars, mergeVars, selectVars, explainVars>>
    \/ \E t \in Threads : ThreadExplainGenerate(t) /\ UNCHANGED <<envVars, tagVars, jobVars, parseVars, fanVars, scoreVars, mergeVars, selectVars, explainVars>>

SpecShared == InitShared /\ [][NextShared]_vars

\* ============================================================ claims
\* The quota/forbidden failure class, read off the primary reply: the
\* service answered 403, or its answer carries the limit-reached text.
QuotaOrForbidden(reply) ==
    reply.kind = "http" /\ (reply.status = STATUS_FORBIDDEN \/ reply.body = LimitText)

PrimaryFailed == primary_exc # NoExc
PrimarySucceeded ==
    primary_reply.kind = "http" /\ RespOk(primary_reply) /\ primary_reply.body = "json"

JobFinished == jpc \in {"done", "failed"}

\* C6: in the per-candidate chain a quota/forbidden failure of the primary
\* tagging call triggers the secondary tagging path exactly once, and the
\* candidate is dropped only if that secondary attempt also fails.
C6_QuotaTriggersSecondaryOnce ==
    (job = "candidate" /\ QuotaOrForbidden(primary_reply)) =>
        /\ secondary_attempts = 1
        /\ (jpc = "failed" => tag_exc # primary_exc)

FetchFailed == page_reply \in {"http_error", "neterr", "silent"}

\* C9: in the per-candidate chain a failed page fetch leaves the page text
\* empty and a failed structuring call leaves the structured object empty;
\* neither fails the candidate: once image tagging has succeeded the job never
\* fails, and when it finishes it returns a ProductRecord and an EcoScore.
C9_DegradeNotFail ==
    job = "candidate" =>
        /\ FetchFailed =>
              (page_text = "" /\ tag_structured = EmptyDict /\ parse_exc = NoExc
               /\ jpc # "failed")
        /\ parse_exc # NoExc => (tag_structured = EmptyDict /\ jpc # "failed")
        /\ tpc = "success" => jpc # "failed"
        /\ (jpc = "done" /\ (FetchFailed \/ parse_exc # NoExc)) =>
              /\ job_result.ok
              /\ job_result.combined_product_metadata = combined_product
              /\ job_result.combined_product_metadata # NoProduct
              /\ job_result.eco_score # NoEco
              /\ job_result.tag_structured = EmptyDict

\* a candidate whose structuring reply was unparseable still finished
C9_Witness ==
    /\ job = "candidate" /\ jpc = "done" /\ job_result.ok
    /\ page_reply = "html" /\ parse_exc.cls = "JSONDecodeError"
    /\ tag_structured = EmptyDict

\* a candidate whose page fetch failed still finished
C9_WitnessFetch ==
    /\ job = "candidate" /\ jpc = "done" /\ job_result.ok
    /\ page_reply = "neterr" /\ page_text = ""

\* C10: every external-collaborator call a pipeline job makes carries a fixed
\* timeout (so the job finishes even when a collaborator never responds).
C10_EveryCallHasTimeout ==
    inflight.svc # "none" => inflight.timeout # <<>>

\* the object the claim describes: every scalar null, every list empty
AllNullObject ==
    [brand |-> None, product_name |-> None, size |-> None,
     material_composition |-> <<>>, materials |-> None, made_in |-> None,
     country_of_origin |-> None, origin |-> None, certifications |-> <<>>,
     care_instructions |-> <<>>, symbols |-> <<>>, other_text |-> None]

\* at most PARSE_RETRIES attempts, the first parsed one is returned, and after
\* two failures the given fallback object; never an exception
RetryContract(fallback) ==
    (gemini_ok /\ gpc # "idle") =>
        /\ attempts <= 2 /\ Len(attempt_log) <= 2
        /\ gpc # "raised"
        /\ gpc = "returned" =>
              LET n == Len(attempt_log)
              IN  /\ n >= 1 /\ n = attempts
                  /\ \A i \in 1..(n - 1) : ~attempt_log[i].ok
                  /\ attempt_log[n].ok => parse_result = attempt_log[n].val
                  /\ ~attempt_log[n].ok => (n = 2 /\ parse_result = fallback)

\* C8 (as claimed): once the client is configured gemini_parse_tag_text makes
\* at most 2 attempts, returns the first attempt's result that parses to a
\* JSON object, and after two failures returns the object with all scalar
\* fields null and all list fields empty, never raising.
C8_RetryThenAllNull == RetryContract(AllNullObject)

\* C8 (amended): as above, but the fallback object keeps the input text in
\* other_text (null only when the text is empty); every other scalar field is
\* null and every list field empty.
C8_RetryThenEmptySchema ==
    RetryContract([AllNullObject EXCEPT
                       !.other_text = IF tag_text = "" THEN None ELSE tag_text])

\* both attempts failed on a non-empty tag text and the fallback was returned
C8_Witness ==
    /\ gemini_ok /\ gpc = "returned" /\ Len(attempt_log) = 2
    /\ ~attempt_log[1].ok /\ ~attempt_log[2].ok
    /\ tag_text # "" /\ parse_result.other_text = tag_text

OcrFailed == ocr_reply \in {"api_error", "error", "silent"}

\* C7: combine_lykdat_and_tag_metadata either returns a complete result with
\* the merged record and its EcoScore, or raises one error and returns
\* nothing; a fatal tagging failure or an OCR failure aborts before any merge
\* or scoring step has run; no partial result is ever returned.
C7_AllOrNothing ==
    job = "primary" =>
        /\ jpc = "done" =>
              /\ job_result.ok /\ job_exc = NoExc
              /\ job_result.combined_product_metadata = combined_product
              /\ combined_product # NoProduct
              /\ job_result.eco_score = eco_score /\ eco_score # NoEco
        /\ jpc # "done" => job_result = NoResult
        /\ jpc = "failed" =>
              (job_exc # NoExc /\ combined_product = NoProduct /\ eco_score = NoEco)
        /\ (tpc = "fatal" \/ OcrFailed) =>
              (jpc \in {"tagging", "failed"} /\ combined_product = NoProduct
               /\ eco_score = NoEco /\ job_result = NoResult)

\* an OCR failure after successful tagging ended the pipeline with an error
C7_Witness ==
    /\ job = "primary" /\ tpc = "success" /\ OcrFailed
    /\ jpc = "failed" /\ job_exc # NoExc /\ job_result = NoResult

\* the pipeline ran to a complete result
C7_WitnessDone ==
    job = "primary" /\ jpc = "done" /\ job_result.ok /\ ocr_reply = "text"

\* ---- find_similar_clothing_full_pipeline
SearchReturned == search_reply # NoReply /\ SearchOutcome(search_reply).ok
K == Len(selected_products)
JobOk(i) == job_state[i] = "ok"
\* the selected candidates whose job succeeded, in the order of the selection
SucceededCandidates ==
    LET Succeeded(p) ==
            \E i \in 1..K : selected_products[i] = p /\ JobOk(i)
    IN  SelectSeq(selected_products, Succeeded)

\* C1: when the call returns, the list holds exactly one result object for
\* each selected candidate whose job succeeded and none for a failed one, in
\* the order of the selected-candidate list whatever the order in which the
\* jobs completed; each object is one the candidate's own chain produces.
C1_ResultsInInputOrder ==
    (fpc = "returned" /\ selected_products # <<>>) =>
        /\ Len(out) = Len(SucceededCandidates)
        /\ \A j \in 1..Len(out) :
             /\ out[j].ok
             /\ out[j].clothing_image_path = SucceededCandidates[j].image
             /\ \E sc \in upstream :
                  out[j] = _build_similar_product_object(SucceededCandidates[j], sc).val

\* a pool run of three candidates in which the second one failed
C1_Witness ==
    /\ fpc = "returned" /\ executor = "shutdown"
    /\ job_state = <<"ok", "failed", "ok">>
    /\ Len(out) = 2

\* C2 as stated: the call never raises, whatever collaborator fails.
C2_NeverRaises == fpc # "raised"

\* C2, amended: a failure inside a candidate's job never raises (the job is
\* dropped and a list is returned), but the call raises exactly when the
\* search credential is missing or the similarity-search call fails, and then
\* before any job has started.
C2_RaisesOnlyFromSearch ==
    /\ (fpc = "raised") <=>
           /\ fpc # "start"
           /\ \/ ~lykdat_key
              \/ search_reply # NoReply /\ ~SearchOutcome(search_reply).ok
    /\ (fpc = "raised") =>
           /\ job_state = <<>> /\ out = <<>>
           /\ fan_exc = IF lykdat_key THEN SearchOutcome(search_reply).exc
                        ELSE MissingKeyExc

\* every job of the call failed and the call returned the empty list
C2_Witness ==
    /\ fpc = "returned" /\ K >= 2 /\ out = <<>>
    /\ \A i \in 1..K : job_state[i] = "failed"

NothingStarted ==
    fpc = "returned" /\ out = <<>> /\ executor = "none" /\ job_state = <<>>

\* C4 as stated: a request with max_results = 0, or whose search returns no
\* products, ends with the empty list and no error, no job and no pool.
C4_DegenerateNeverErrors ==
    (/\ fpc \notin {"start", "search_call"}
     /\ max_results = 0 \/ (SearchReturned /\ flat_products = <<>>))
        => NothingStarted

\* C4, amended: once the similarity search has answered, a request with
\* max_results = 0 or with no products found returns the empty list at once,
\* no job and no pool being started; the search is called even for
\* max_results = 0, and its failure is the only way such a request errs.
C4_DegenerateAfterSearch ==
    /\ (SearchReturned /\ (max_results = 0 \/ flat_products = <<>>))
           => NothingStarted
    /\ (max_results = 0 /\ fpc \notin {"start", "search_call"} /\ ~NothingStarted)
           => (fpc = "raised" /\ ~SearchReturned /\ job_state = <<>>)

\* products were found, and max_results = 0 selected none of them
C4_Witness ==
    /\ SearchReturned /\ max_results = 0 /\ flat_products # <<>>
    /\ fpc = "returned"

\* ------------------------------------------------------------------ C11
\* the documented band of an impact score x = num/den: A up to and including
\* 1.6, B up to and including 2.5, C up to 3.4, D up to 4.3, E above
Band(x) ==
    IF 10 * x.num <= 16 * x.den THEN "A"
    ELSE IF 10 * x.num <= 25 * x.den THEN "B"
    ELSE IF 10 * x.num <= 34 * x.den THEN "C"
    ELSE IF 10 * x.num <= 43 * x.den THEN "D"
    ELSE "E"

\* C11: _score_to_grade maps an impact score to the documented band with
\* inclusive upper edges, so that 1.6, 2.5, 3.4 and 4.3 give A, B, C and D, and
\* the grade of every EcoScore compute_eco_score returns is _score_to_grade of
\* its impact_score.
C11_GradeIsBandOfImpact ==
    /\ (score_entry = "grade" /\ epc # "start") =>
          /\ grade_out = Band(impact_in)
          /\ impact_in = Tenths(16) => grade_out = "A"
          /\ impact_in = Tenths(25) => grade_out = "B"
          /\ impact_in = Tenths(34) => grade_out = "C"
          /\ impact_in = Tenths(43) => grade_out = "D"
    /\ (score_entry = "eco" /\ epc # "start") =>
          /\ score_eco.grade = _score_to_grade(score_eco.impact_score)
          /\ score_eco.grade = Band(score_eco.impact_score)

\* a boundary value has been graded
C11_Witness ==
    /\ score_entry = "grade" /\ epc = "scored"
    /\ impact_in = Tenths(34) /\ grade_out = "C"

\* ------------------------------------------------------------------ C12
\* C12: the impact_score of every EcoScore compute_eco_score returns lies in
\* [1.0, 5.0], whatever the materials string (empty, absent, garbage,
\* percentages summing to 0 or to more than 100), the structured hint and the
\* certification list.
C12_ImpactWithinOneAndFive ==
    (score_entry = "eco" /\ epc # "start") =>
        LET x == score_eco.impact_score
        IN  x.den > 0 /\ x.den <= x.num /\ x.num <= 5 * x.den

\* percentages summing to 0 have been scored, and the clamp has acted
C12_Witness ==
    /\ score_entry = "eco" /\ epc = "scored"
    /\ score_in.product.materials = "0% cotton, 0% polyester"
    /\ score_in.ts = EmptyDict
    /\ score_eco.impact_score = Tenths(50)

\* ------------------------------------------------------------------ C13
\* the arithmetic mean of the tokens' impact values
RECURSIVE SumImpact(_)
SumImpact(tokens) ==
    IF tokens = <<>> THEN RZero
    ELSE RAdd(ImpactOf(Head(tokens).key), SumImpact(Tail(tokens)))
MeanImpact(tokens) == RDiv(SumImpact(tokens), Len(tokens))

NoTokenHasPct == \A i \in 1..Len(mat_tokens) : mat_tokens[i].pct = NoPct
PctSumNotPositive == ~NoTokenHasPct /\ SumPct(mat_tokens) <= 0

\* C13: when some token carries a percentage and the percentages sum to 0 or
\* less, _weighted_material_impact returns the arithmetic mean of the tokens'
\* impact values ((cotton,0),(polyester,0) give 3.75), and so it does when no
\* token carries a percentage.
C13_ZeroSumFallsBackToMean ==
    (dpc = "weighted" /\ (NoTokenHasPct \/ PctSumNotPositive)) =>
        mat_impact = MeanImpact(mat_tokens)

\* ------------------------------------------------------------------ C14
\* the certification adjustment of a list: the result minus the base score
Adjustment(base_score, list) ==
    RSub(_adjust_for_certifications(base_score, list), base_score)

NoKeywordIn(list) ==
    \A kw \in STRONG_CERT_KEYWORDS \cup MODERATE_CERT_KEYWORDS :
        ~Occurs(kw, CertText(list))

Distinct(tier, list) == Cardinality({ kw \in tier : Occurs(kw, CertText(list)) })

\* -0.7 for a strong keyword, -0.4 for a moderate one, -0.15 and -0.1 for each
\* further distinct keyword of the tier, in hundredths
Uncapped(list) ==
    LET strong == Distinct(STRONG_CERT_KEYWORDS, list)
        moderate == Distinct(MODERATE_CERT_KEYWORDS, list)
    IN  (IF strong >= 1 THEN -70 - 15 * (strong - 1) ELSE 0)
        + (IF moderate >= 1 THEN -40 - 10 * (moderate - 1) ELSE 0)

\* C15: before the cap the certification adjustment is -0.7 when a strong
\* keyword occurs in the joined text (whatever its case), plus -0.4 when a
\* moderate keyword occurs, plus -0.15 per further distinct strong keyword and
\* -0.1 per further distinct moderate keyword; "100% organic cotton" with
\* ["GOTS"] has composite 2.4, adjustment -0.7, impact 1.7 and grade B.
C15_AdjustmentByTier ==
    cpc = "adjusted" =>
        LET adj == RSub(cert_adjusted, cert_base)
            raw == Uncapped(cert_list)
        IN  /\ adj = Hundredths(IF raw < -150 THEN -150 ELSE raw)
            /\ (cert_materials = "100% organic cotton" /\ cert_list = <<"GOTS">>) =>
                  /\ cert_base = Tenths(24)
                  /\ adj = Tenths(-7)
                  /\ _clamp_score(cert_adjusted) = Tenths(17)
                  /\ _score_to_grade(_clamp_score(cert_adjusted)) = "B"

\* the example has been scored
C15_Witness ==
    /\ cpc = "adjusted"
    /\ cert_materials = "100% organic cotton" /\ cert_list = <<"GOTS">>
    /\ cert_adjusted = Tenths(17)

\* ------------------------------------------------------------------ C16
\* clamp(round((6 - impactScore) / 5 * 100), 0, 100), round() taking a half to
\* the even neighbour
ScoreTo100_rounded(impact_score) ==
    LET x == RScale(100, RDiv(RSub(Tenths(60), impact_score), 5))
        floor == x.num \div x.den
        twice == 2 * (x.num - floor * x.den)
        r == IF twice > x.den \/ (twice = x.den /\ floor % 2 = 1) THEN floor + 1 ELSE floor
    IN  IF r < 0 THEN 0 ELSE IF r > 100 THEN 100 ELSE r

\* C16: the 0-100 score shown at the presentation boundary is
\* clamp(round((6 - impactScore) / 5 * 100), 0, 100) for every impactScore in
\* [1.0, 5.0]; impactScore 3.66 is shown as 47.
C16_ShownIsRounded ==
    epc = "shown" =>
        /\ shown = ScoreTo100_rounded(ImpactShown)
        /\ ImpactShown = Hundredths(366) => shown = 47

\* ------------------------------------------------------------------ C17
\* compute_eco_score has returned for a product without materials, called
\* without a structured hint and without a tagging payload
ScoredAbsentData ==
    /\ score_entry = "eco" /\ epc # "start"
    /\ ~Truthy(score_in.product.materials)
    /\ score_in.ts = EmptyDict
    /\ score_in.tags = NoTags

\* what the sentence promises of such a call
AbsentDataResult ==
    /\ _detect_material_tokens(
           ScoredMaterials(score_in.product, score_in.ts, score_in.tags))
         = <<Token("unknown", NoPct)>>
    /\ score_eco.impact_score = Tenths(35)
    /\ score_eco.grade = "D"
    /\ score_eco.certifications = <<>>
    /\ score_eco.impact_explanation # None
    /\ ~gemini_ok => score_eco.impact_explanation = "template without client"

\* C17 as stated: a product with empty or null materials, no structured hint
\* and no tagging payload is scored from the single token (unknown, None), with
\* impact_score 3.5, grade D and an empty certification list, and the call
\* returns (with a template explanation when text generation is unavailable).
C17_AbsentDataScoresUnknown == ScoredAbsentData => AbsentDataResult

\* C17, amended: the same, for a product whose certification list is empty too.
C17_AbsentDataWithoutCertsScoresUnknown ==
    (ScoredAbsentData /\ score_in.product.certifications = <<>>) => AbsentDataResult

\* such a product has been scored while text generation was unavailable
C17_Witness ==
    /\ ScoredAbsentData /\ epc = "scored"
    /\ score_in.product.materials = None
    /\ score_in.product.certifications = <<>>
    /\ ~gemini_ok
    /\ score_eco.impact_score = Tenths(35)

\* ------------------------------------------------------------------ C18
\* the positions that bound the segments of a materials text: before its first
\* word, after its last word, and every comma, slash and semicolon
Cuts(text) ==
    {0, Len(text) + 1} \cup { i \in 1..Len(text) : text[i] \in Separators }
NextCut(text, b) == CHOOSE c \in Cuts(text) : c > b /\ \A d \in Cuts(text) : d > b => c <= d
\* the cuts a non-empty segment starts after
SegmentStarts(text) == { b \in Cuts(text) : b <= Len(text) /\ NextCut(text, b) > b + 1 }
\* the i-th non-empty segment
Segment(text, i) ==
    LET b == CHOOSE c \in SegmentStarts(text) :
                 Cardinality({ d \in SegmentStarts(text) : d < c }) = i - 1
    IN  SubSeq(text, b + 1, NextCut(text, b) - 1)
\* the value of the first "<n>%" of a segment, NoPct when it has none
LeadingPct(seg) ==
    LET at == { i \in 1..Len(seg) : IsPercent(seg[i]) }
    IN  IF at = {} THEN NoPct
        ELSE Percent(seg[CHOOSE i \in at : \A j \in at : i <= j])

\* C18: _detect_material_tokens never returns an empty list; it returns one
\* token per non-empty comma/slash/semicolon separated segment, in segment
\* order, each with the segment's first "<number>%" value or None;
\* "80% cotton, 20% polyester" gives [(cotton,80),(polyester,20)], whose
\* composite 3.66 has grade D.
C18_OneTokenPerSegment ==
    dpc # "text" =>
        LET n == Cardinality(SegmentStarts(mat_text))
        IN  /\ mat_tokens # <<>>
            /\ n > 0 =>
                  /\ Len(mat_tokens) = n
                  /\ \A i \in 1..n : mat_tokens[i].pct = LeadingPct(Segment(mat_text, i))
            /\ mat_text = <<"80%", "cotton", ",", "20%", "polyester">> =>
                  /\ mat_tokens = <<Token("cotton", 80), Token("polyester", 20)>>
                  /\ dpc = "weighted" =>
                        /\ mat_impact = Hundredths(366)
                        /\ _score_to_grade(_clamp_score(mat_impact)) = "D"

\* the example has been tokenised and weighted
C18_Witness ==
    /\ dpc = "weighted"
    /\ mat_text = <<"80%", "cotton", ",", "20%", "polyester">>
    /\ mat_tokens = <<Token("cotton", 80), Token("polyester", 20)>>
    /\ mat_impact = Hundredths(366)

\* ------------------------------------------------------------------ C19
Names(seg, fibre) == \E i \in 1..Len(seg) : seg[i] = fibre

\* C19: _detect_material_tokens resolves a segment to the most specific key it
\* contains: a segment naming recycled polyester gets recycled_polyester and
\* one naming recycled nylon gets recycled_polyamide, never the plain
\* polyester or polyamide key; "Outer: 100% organic cotton / Lining: recycled
\* polyester" gives [(organic_cotton,100),(recycled_polyester,None)].
C19_MostSpecificKey ==
    dpc # "text" =>
        /\ \A i \in 1..Cardinality(SegmentStarts(mat_text)) :
              /\ Names(Segment(mat_text, i), "recycled polyester")
                    => mat_tokens[i].key = "recycled_polyester"
              /\ Names(Segment(mat_text, i), "recycled nylon")
                    => mat_tokens[i].key = "recycled_polyamide"
              /\ Names(Segment(mat_text, i), "organic cotton")
                    => mat_tokens[i].key = "organic_cotton"
        /\ mat_text = <<"Outer:", "100%", "organic cotton", "/",
                        "Lining:", "recycled polyester">> =>
              mat_tokens = <<Token("organic_cotton", 100),
                             Token("recycled_polyester", NoPct)>>

\* ------------------------------------------------------------------ C20
\* the sources of materials of a scoring call
Composition == GetList(score_in.ts, "material_composition")
HasNamedEntry ==
    \E i \in 1..Len(Composition) :
        Truthy(Or(Composition[i].material, Composition[i].name))
HintMaterials == Get(score_in.ts, "materials")
LabelGuess == _infer_material_from_labels(score_in.tags)
\* the materials text of the returned EcoScore
UsedMaterials == score_eco.material_and_origin.materials
\* the impact score a materials text leads to, given the returned certifications
ImpactFrom(text) ==
    _clamp_score(_adjust_for_certifications(
        _weighted_material_impact(_detect_material_tokens(text)),
        score_eco.certifications))
ScoredFrom(text) == UsedMaterials = text /\ score_eco.impact_score = ImpactFrom(text)

\* C20: compute_eco_score takes the materials it scores from the hint's
\* material_composition when that list has a named entry; otherwise from the
\* hint's materials string when it is not blank; otherwise from the product
\* record; and from the label guess only when the product record has no
\* materials and the hint supplies none (a product record that states the
\* very text of the guess is scored from the record).
C20_MaterialsPrecedence ==
    (score_entry = "eco" /\ epc # "start") =>
        /\ HasNamedEntry => ScoredFrom(CompositionText(Composition))
        /\ (~HasNamedEntry /\ ~Blank(HintMaterials))
              => ScoredFrom(MaterialWords(HintMaterials))
        /\ (~HasNamedEntry /\ Blank(HintMaterials)
              /\ Truthy(score_in.product.materials))
              => ScoredFrom(MaterialWords(score_in.product.materials))
        /\ (~HasNamedEntry /\ Blank(HintMaterials)
              /\ ~Truthy(score_in.product.materials) /\ LabelGuess # None)
              => ScoredFrom(MaterialWords(LabelGuess))
        /\ (LabelGuess # None /\ UsedMaterials = MaterialWords(LabelGuess)
              /\ score_in.product.materials # LabelGuess)
              => /\ ~Truthy(score_in.product.materials)
                 /\ ~HasNamedEntry /\ Blank(HintMaterials)

\* all four sources were there, and the named composition entry was scored
C20_Witness ==
    /\ score_entry = "eco" /\ epc = "scored"
    /\ score_in.product.materials = "100% organic cotton"
    /\ HintMaterials = "recycled polyester" /\ HasNamedEntry
    /\ LabelGuess = "98% cotton, 2% elastane"
    /\ UsedMaterials = <<"polyester">>
    /\ score_eco.impact_score = Tenths(39)

\* ------------------------------------------------------------------ C21
\* the four fields of an EcoScore a consumer reads besides the explanation
Visible(eco) ==
    <<eco.grade, eco.impact_score, eco.material_and_origin, eco.certifications>>
\* the scoring call had no product materials and took them from the labels
GuessedFromLabels ==
    /\ score_entry = "eco" /\ epc # "start"
    /\ ~Truthy(score_in.product.materials) /\ Truthy(LabelGuess)
\* the same call, the product record now carrying the guessed string itself
ExplicitTwin ==
    compute_eco_score([score_in.product EXCEPT !.materials = LabelGuess],
                      score_in.ts, score_in.tags, score_eco.impact_explanation)

\* C21: an EcoScore whose materials were guessed from the image labels can be
\* told from the EcoScore of the call that differs only in receiving the same
\* materials string explicitly: grade, impact_score, material_and_origin and
\* certifications are not all equal.
C21_GuessDistinguishable ==
    GuessedFromLabels => Visible(score_eco) # Visible(ExplicitTwin)

\* ------------------------------------------------------------------ C22
\* the record the image-tagging result was converted to
FromTags == deep_tags_to_product_metadata(merge_in.tags, MergeSourceUrl)
\* the sources of each merged field, highest priority first: the structured
\* extraction, the image-tagging result and, for a candidate's brand and
\* product name, the search result
BrandSources ==
    IF merge_site = "primary" THEN <<merge_tm.brand, FromTags.brand>>
    ELSE <<merge_tm.brand, FromTags.brand, merge_in.prod.brand_name>>
NameSources ==
    IF merge_site = "primary" THEN <<merge_tm.product_name, FromTags.product_name>>
    ELSE <<merge_tm.product_name, FromTags.product_name, merge_in.prod.name>>
MaterialsSources == <<merge_tm.materials, FromTags.materials>>
OriginSources == <<merge_tm.origin, FromTags.origin>>
NonEmpty(v) == v # None /\ v # ""
\* value is what the sources resolve to by priority
ResolvedByPriority(value, sources) ==
    /\ \A i \in 1..Len(sources) :
          (NonEmpty(sources[i]) /\ \A j \in 1..(i - 1) : ~NonEmpty(sources[j]))
              => value = sources[i]
    /\ (\A i \in 1..Len(sources) : ~NonEmpty(sources[i])) => ~NonEmpty(value)
    /\ value = None => \A i \in 1..Len(sources) : ~NonEmpty(sources[i])

\* C22: at both merge sites each of brand, product_name, materials and origin
\* of the merged record is the value of the highest-priority source that has
\* a non-empty value, the structured extraction ranking above the
\* image-tagging result; a lower-priority value is used only when every
\* higher-priority source is empty, and the field is null only when all
\* sources are empty.
C22_FieldsByPriority ==
    mpc \in {"merged", "scored"} =>
        /\ ResolvedByPriority(merge_product.brand, BrandSources)
        /\ ResolvedByPriority(merge_product.product_name, NameSources)
        /\ ResolvedByPriority(merge_product.materials, MaterialsSources)
        /\ ResolvedByPriority(merge_product.origin, OriginSources)

\* a candidate whose structured product name beats the tagged item's name
\* and whose brand falls through two empty sources to the search result
C22_Witness ==
    /\ mpc = "merged" /\ merge_site = "candidate"
    /\ merge_tm.product_name = "Tag Tee" /\ FromTags.product_name = "Jeans"
    /\ merge_product.product_name = "Tag Tee"
    /\ merge_tm.brand = "" /\ FromTags.brand = None
    /\ merge_product.brand = "Search Brand"
    /\ merge_product.origin = "Portugal"

\* ------------------------------------------------------------------ C23
\* the values of a list, each at its first occurrence only
RECURSIVE FirstOccurrences(_)
FirstOccurrences(s) ==
    IF s = <<>> THEN <<>>
    ELSE LET r == FirstOccurrences(SubSeq(s, 1, Len(s) - 1))
         IN  IF InSeq(s[Len(s)], r) THEN r ELSE Append(r, s[Len(s)])
\* the non-empty certification values a source lists, as strings
Listed(certs) ==
    LET Given(c) == NonEmpty(c)
        given == SelectSeq(certs, Given)
    IN  [i \in 1..Len(given) |-> Str(given[i])]
HintListed == Listed(GetList(merge_in.data, "certifications"))
\* the note parts of the merged record: the tagging notes, the size, the care
\* instructions
NoteParts ==
    LET size == Get(merge_in.data, "size")
        care == GetList(merge_in.data, "care_instructions")
    IN  (IF TagNotes(merge_in.tags) # NoNotes THEN <<TagNotes(merge_in.tags)>> ELSE <<>>)
        \o (IF NonEmpty(size) THEN << <<"size: ", size>> >> ELSE <<>>)
        \o (IF care # <<>> THEN << <<"care: ">> \o JoinWith("; ", Pieces(care)) >>
            ELSE <<>>)

\* C23: the certifications of a merged record, and those of the EcoScore
\* computed from it together with the structured hint, are the union of the
\* sources' certification lists, no value twice, in order of first
\* occurrence; the merged eco_notes are the non-empty note parts joined with
\* "; ", no part overwriting another.
C23_CertsUnionNotesJoined ==
    /\ mpc \in {"merged", "scored"} =>
          /\ merge_product.certifications
                = FirstOccurrences(Listed(FromTags.certifications) \o HintListed)
          /\ merge_notes = JoinWith("; ", NoteParts)
    /\ mpc = "scored" =>
          merge_eco.certifications
              = FirstOccurrences(merge_product.certifications \o HintListed)

\* ------------------------------------------------------------------ C24
\* currency match plus allow-listed domain, or currency match with no URL
PreferredBySpec(p) ==
    /\ Upper(Or(p.currency, "")) = "USD"
    /\ Or(p.url, "") = "" \/ DomainIn(Or(p.url, "")) \in US_RETAILER_DOMAINS

\* C24: a search result is classified locale-preferred (is_us_like_product
\* returns true) if and only if its currency is USD and either it has no URL
\* or its URL contains an allow-listed retailer domain; a USD-priced result
\* on no allow-listed domain is classified as "other".
C24_PreferredIffAllowListed ==
    spc # "start" =>
        \A i \in 1..Len(sel_flat) :
            is_us_like_product(sel_flat[i]) <=> PreferredBySpec(sel_flat[i])

\* ------------------------------------------------------------------ C25
\* the positions of the flat list whose item is locale-preferred, or "other"
PreferredAt == { i \in 1..Len(sel_flat) : is_us_like_product(sel_flat[i]) }
OtherAt == { i \in 1..Len(sel_flat) : ~is_us_like_product(sel_flat[i]) }
\* the items of the flat list at a set of positions, in input order
RECURSIVE ItemsAt(_, _)
ItemsAt(positions, from) ==
    IF from > Len(sel_flat) THEN <<>>
    ELSE (IF from \in positions THEN <<sel_flat[from]>> ELSE <<>>)
         \o ItemsAt(positions, from + 1)
\* the output is a run of preferred items followed by a run of "other" items,
\* each in input order
PreferredThenOther(preferred) ==
    /\ Len(preferred) <= Len(sel_out)
    /\ SubSeq(sel_out, 1, Len(preferred)) = preferred
    /\ \E pick \in SUBSET OtherAt :
          SubSeq(sel_out, Len(preferred) + 1, Len(sel_out)) = ItemsAt(pick, 1)

Returned == Concat(sel_groups)
\* s holds the items of t, each as often as t does
SameItems(s, t) ==
    /\ Len(s) = Len(t)
    /\ \A p \in { t[i] : i \in 1..Len(t) } :
          Cardinality({ i \in 1..Len(s) : s[i] = p })
              = Cardinality({ i \in 1..Len(t) : t[i] = p })
\* s is sorted by descending score, equal scores in the order they have in t
SortedStably(s, t) ==
    \A i, j \in 1..Len(s) :
        i < j => /\ s[i].score >= s[j].score
                 /\ s[i].score = s[j].score =>
                       \E a, b \in 1..Len(t) : a < b /\ t[a] = s[i] /\ t[b] = s[j]

\* C26: for a flat list of N items and a requested count max_results >= 0,
\* select_us_biased_products returns exactly min(max_results, N) items, no
\* input item twice, an "other" item only when fewer than max_results
\* locale-preferred items exist; the flat list it selects from is the search
\* results sorted by descending similarity score.
C26_CountAndSource ==
    /\ spc # "start" => SameItems(sel_flat, Returned) /\ SortedStably(sel_flat, Returned)
    /\ spc = "selected" =>
          /\ Len(sel_out) = Min(sel_max, Len(sel_flat))
          /\ \A i, j \in 1..Len(sel_out) : i # j => sel_out[i] # sel_out[j]
          /\ \A i \in 1..Len(sel_out) : InSeq(sel_out[i], sel_flat)
          /\ (\E i \in 1..Len(sel_out) : ~is_us_like_product(sel_out[i]))
                => Cardinality(PreferredAt) < sel_max

\* the second group holds the better-scored product: it is selected alone
C26_Witness ==
    /\ spc = "selected" /\ sel_max = 1 /\ Len(sel_flat) = 3
    /\ Returned[1].score = 1 /\ Returned[2].score = 2
    /\ sel_flat[1] = Returned[2]
    /\ sel_out = <<Returned[2]>>

\* C27: _gemini_explanation never lets an exception out: when the client
\* cannot be configured or the call fails, compute_eco_score still returns,
\* the explanation is a template whose content is fixed by the grade, the
\* impact score (to one decimal), the materials and the certifications, and
\* the grade and the impact score are the ones computed before the call.
ScoredBeforeExplanation ==
    compute_eco_score(explain_in.product, explain_in.ts, explain_in.tags, None)

TemplateMaterials ==
    IF explain_out.kind = "template without client"
    THEN <<Or(explain_in.product.materials, "unknown")>>
    ELSE MaterialSummary(ExplainTokens)

TemplateCertifications ==
    IF explain_eco.certifications = <<>>
    THEN IF explain_out.kind = "template without client" THEN <<"none">>
         ELSE <<"no major environmental certifications found">>
    ELSE IF explain_out.kind = "template without client"
    THEN explain_eco.certifications
    ELSE JoinWith(", ", Pieces(explain_eco.certifications))

C27_ExplanationNeverRaises ==
    /\ xpc # "raised"
    /\ explain_exc = NoExc
    /\ xpc = "returned" =>
         /\ explain_eco.grade = ScoredBeforeExplanation.grade
         /\ explain_eco.impact_score = ScoredBeforeExplanation.impact_score
         /\ explain_eco.impact_explanation = explain_out.kind
         /\ (explain_out.kind = "template without client") <=> ~gemini_ok
         /\ explain_out.kind # "gemini text" =>
              /\ explain_out.grade = explain_eco.grade
              /\ explain_out.impact = OneDecimal(explain_eco.impact_score)
              /\ explain_out.materials = TemplateMaterials
              /\ explain_out.certifications = TemplateCertifications

C27_Witness ==
    /\ xpc = "returned"
    /\ explain_out.kind = "template after failed call"
    /\ explain_eco.certifications # <<>>
    /\ Len(ExplainTokens) > 1

\* C28: during the parallel fan-out no job writes process-wide state: no
\* step of a job changes the text-generation client configuration.
C28_NoJobWritesClientConfig == [][genai_config' = genai_config]_vars

\* every generate_content call of a job runs with the key that job configured
EachCallUsesOwnKey ==
    \A t \in Threads : \A i \in 1..Len(thread_key[t]) :
        thread_key[t][i] = ExplainKey(key_env)

\* C29: the sequential loop and the thread pool are observationally
\* equivalent: in both, the returned list is the same function of the
\* selected candidates and their outcomes (the successful results in the
\* order of the selection), every selected candidate's chain is started once
\* and ended once, and a failed candidate neither ends the call nor keeps a
\* later candidate from running.
OutcomesInOrder ==
    LET Kept(r) == r.ok
    IN  SelectSeq(results, Kept)

StartedOnceEach ==
    \A i \in 1..Len(job_state) :
        (Len(job_state') = Len(job_state) /\ job_state'[i] # job_state[i]) =>
            \/ job_state[i] = "pending" /\ job_state'[i] = "running"
            \/ job_state[i] = "running" /\ job_state'[i] \in {"ok", "failed"}

SamePathResult ==
    /\ (fpc = "returned" /\ selected_products # <<>>) =>
          /\ AllJobsOver
          /\ Len(results) = Len(selected_products)
          /\ \A i \in 1..Len(results) : results[i].ok <=> job_state[i] = "ok"
          /\ out = OutcomesInOrder
    /\ fpc = "raised" => job_state = <<>>
    /\ fpc = "sequential" => Cardinality(Running) <= 1

C29_PathsEquivalent == []SamePathResult /\ [][StartedOnceEach]_vars

\* a sequential run in which the first candidate failed and the second ran
C29_Witness ==
    /\ fpc = "returned" /\ executor = "none" /\ workers <= 1
    /\ Len(job_state) >= 2
    /\ job_state[1] = "failed" /\ job_state[2] = "ok"
    /\ Len(out) = Len(selected_products) - 1

\* C30: when some token carries a percentage and the percentages sum to more
\* than 0, a token without a percentage weighs nothing (the composite is the
\* one of the percentage-carrying tokens alone), the weights pct / total sum
\* to 1, and the composite is the pct-weighted mean of the impact values: it
\* lies between the smallest and the largest impact of the
\* percentage-carrying tokens.
HasPct(tok) == tok.pct # NoPct
PctTokens == SelectSeq(mat_tokens, HasPct)
PctSumPositive == PctTokens # <<>> /\ SumPct(mat_tokens) > 0

RECURSIVE PctWeighted(_, _)
PctWeighted(tokens, total) ==
    IF tokens = <<>> THEN RZero
    ELSE RAdd(RScale(Head(tokens).pct, RDiv(ImpactOf(Head(tokens).key), total)),
              PctWeighted(Tail(tokens), total))

RECURSIVE WeightTotal(_, _)
WeightTotal(tokens, total) ==
    IF tokens = <<>> THEN RZero
    ELSE RAdd(Rat(IF HasPct(Head(tokens)) THEN Head(tokens).pct ELSE 0, total),
              WeightTotal(Tail(tokens), total))

C30_ConvexCombination ==
    (dpc = "weighted" /\ PctSumPositive) =>
        /\ mat_impact = PctWeighted(PctTokens, SumPct(mat_tokens))
        /\ WeightTotal(mat_tokens, SumPct(mat_tokens)) = Rat(1, 1)
        /\ \E i \in 1..Len(PctTokens) : RLe(ImpactOf(PctTokens[i].key), mat_impact)
        /\ \E i \in 1..Len(PctTokens) : RLe(mat_impact, ImpactOf(PctTokens[i].key))

\* a text with a percentage on one material and none on another of a
\* different impact
C30_Witness ==
    /\ dpc = "weighted" /\ PctSumPositive
    /\ \E i, j \in 1..Len(mat_tokens) :
         /\ HasPct(mat_tokens[i]) /\ mat_tokens[i].pct > 0
         /\ ~HasPct(mat_tokens[j])
         /\ ImpactOf(mat_tokens[i].key) # ImpactOf(mat_tokens[j].key)

====
